---------------------------- MODULE Spec2Model ----------------------------
(***************************************************************************)
(* A model of memdb (t3rm1n4l/memdb): an in-memory ordered key-value store *)
(* with MVCC snapshots on a lock-free skiplist.                            *)
(*                                                                         *)
(*  - the skiplist (src/skiplist/skiplist.go, its iterator and its node)   *)
(*    is modelled link by link: every node keeps, per level, a successor   *)
(*    pointer and a delete mark, also after it has been unlinked;          *)
(*  - the MVCC layer (src/memdb.go, src/iterator.go) is modelled one       *)
(*    shared-memory access per step: a load of currSn, a skiplist call, a  *)
(*    CAS of deadSn, an add to count, a write of a gc-list pointer, ...    *)
(*    A call into the skiplist is one step of this layer.                  *)
(*                                                                         *)
(* Keys are equal-length byte strings, for which defaultKeyCmp is the      *)
(* total order of the strings; they are numbered 1..MaxKey in that order.  *)
(***************************************************************************)
EXTENDS Integers, Sequences, FiniteSets, TLC

\* ------------------------------------------------------------------ bounds
\* Keys 1..MaxKey.
MaxKey == 2
\* Item objects (one per Put call) of a run: the node identifiers 1..MaxItems.
MaxItems == 3
\* Snapshot objects (one per NewSnapshot call) of a run: 1..MaxSnaps.
MaxSnaps == 3
\* Highest level of a node (MaxLevel = 32 in the source).
MaxLevel == 2
\* Writers (each one a goroutine of the client) a store may be given.
NumWriters == 2
\* Largest refresh rate an iterator is given (0 = never refresh).
MaxRefreshRate == 1
\* Positions one iterator reports before it is closed.
MaxYield == 4
\* The workload of Spec: the calls one client goroutine makes.
SeqSnaps == 2
SeqDeletes == 1
SeqIters == 1
SeqLevel == 0
\* The workload of SpecRace: the calls two writer goroutines make.
RaceItems == 2
RaceSnaps == 2
RaceDeletes == 2
RaceLevel == 0
\* The workload of SpecGC: the calls a writer and a reader goroutine make.
GCItems == 1
GCDeletes == 1
GCIters == 1
GCLevel == 0
\* The workload of SpecSMR: the calls two mutator goroutines and an iterating
\* goroutine make on a skiplist whose nodes are freed.
SmrItems == 2
SmrDeletes == 2
SmrIters == 1
SmrLevel == 0
\* The workload of SpecLive: the calls one writer goroutine makes.
LiveItems == 1
LiveDeletes == 1
\* The workload of SpecSL: the calls two goroutines make on a skiplist whose
\* nodes have several levels.
SlItems == 2
SlDeletes == 2
SlLevel == 1
\* The workload of SpecLF: items, Delete calls, seeks and the top level.
LfItems == 2
LfDeletes == 2
LfHelps == 2
LfLevel == 1
\* The workload of SpecHelp.
HelpItems == 2
HelpDeletes == 1
HelpSeeks == 2
\* The workload of SpecNL: Inserts of goroutines whose NewLevel calls overlap;
\* NlDraws is the largest number of successful draws of randFn.
NlItems == 3
NlDraws == 3
\* The largest shards and concurrency arguments of a Visitor call.
MaxShards == 3
MaxConc == 2
\* The workload of SpecVisit: the calls of the client before its Visitor call.
VisSnaps == 1
VisDeletes == 1
VisLevel == 1
\* The items of the workload of SpecVisitLive.
LiveVisItems == 3

\* ------------------------------------------------------------ identifiers
head == 0
tail == MaxItems + 1
Nil == MaxItems + 2
NodeIds == 1..MaxItems
Keys == 1..MaxKey
Levels == 0..MaxLevel
Writers == 1..NumWriters
\* The reader goroutine (the owner of the MVCC iterator).
Reader == NumWriters + 1
Threads == 1..Reader
SnapIds == 1..MaxSnaps
\* The worker goroutines of a Visitor call.
Workers == 1..MaxConc
NoSnap == MaxSnaps + 1

VARIABLES
    \* --- the store skiplist
    link,         \* link[n][i+1] = [ptr, del]: NodeRef i of node n (head included)
    slLevel,      \* Skiplist.level of the store
    node,         \* node[n] = [key, born, dead, gclink]: Node and its Item
    nAlloc,       \* number of items created so far
    \* --- MemDB
    currSn, count, leastUnrefSn, lastGCSn, isGCRunning,
    snap,         \* snap[s] = [sn, refCount, count, gclist]
    nSnaps,       \* number of Snapshot objects created so far
    snapshots,    \* the live-snapshot skiplist, as the set of its snapshots
    gcsnapshots,  \* the dead-snapshot skiplist, as the set of its snapshots
    gcchan,       \* the gc channel: a sequence of gclist heads
    wr,           \* wr[w] = [gchead, gctail]: the writer's local gc list
    \* --- goroutines
    th,           \* th[t]: program counter and locals of client goroutine t
    gc,           \* the GC goroutine
    cw,           \* cw[w]: the collectionWorker started by NewWriter of w
    it,           \* the MVCC iterator of the reader
    used,         \* calls made so far: [del, iter]
    lim,          \* the workload: the calls the client makes at most
    barrier,      \* the access barrier of the store skiplist
    vis,          \* the Visitor call of the client: its iterators and workers
    \* --- history
    hist

vars == << link, slLevel, node, nAlloc, currSn, count, leastUnrefSn, lastGCSn,
           isGCRunning, snap, nSnaps, snapshots, gcsnapshots, gcchan, wr,
           th, gc, cw, it, used, lim, barrier, vis, hist >>

\* ------------------------------------------------------------ comparators
\* bytes.Compare on equal-length keys.
keyCmp(a, b) == IF a < b THEN -1 ELSE IF a > b THEN 1 ELSE 0

\* newInsertCompare: key, then bornSn.
insCmp(this, that) ==
    LET v == keyCmp(this.key, that.key)
    IN  IF v = 0 THEN this.born - that.born ELSE v

\* newIterCompare: key only.
iterCmp(this, that) == keyCmp(this.key, that.key)

\* The comparator named c.
applyCmp(c, this, that) ==
    IF c = "ins" THEN insCmp(this, that) ELSE iterCmp(this, that)

\* compare(cmp, this, that) of the skiplist: a sentinel (nil item) on the left
\* is greater than every item, a sentinel on the right is smaller.
compare(c, n, itm) ==
    IF n = tail \/ n = head THEN 1
    ELSE applyCmp(c, node[n], itm)

\* ------------------------------------------------------------- node links
\* Node.getNext: the pointer and the mark are read in one atomic load.
getNextPtr(l, n, i) == IF n = tail \/ n = Nil THEN Nil ELSE l[n][i + 1].ptr

getNextDel(l, n, i) == IF n = tail \/ n = Nil THEN FALSE ELSE l[n][i + 1].del

\* A setNext that writes nothing.
setNextNone(l, n, i, p) == l

\* Node.setNext: writes the pointer only, the mark byte is left as it is.
setNext(l, n, i, p) == [l EXCEPT ![n][i + 1].ptr = p]

\* A link that is written without the compare of the expected word.
dcasBlind(l, n, i, prevPtr) == n # Nil /\ n # tail

\* A compare that looks at the pointer of the link and not at its mark.
dcasAnyMark(l, n, i, prevPtr) ==
    n # Nil /\ n # tail /\ l[n][i + 1].ptr = prevPtr

\* Node.dcasNext: the expected word is built from prevPtr with the mark clear
\* (prevIsdeleted is not used), so it succeeds only on an unmarked link.
dcasOk(l, n, i, prevPtr) ==
    n # Nil /\ n # tail /\ l[n][i + 1] = [ptr |-> prevPtr, del |-> FALSE]

dcasNext(l, n, i, newPtr, newDel) ==
    [l EXCEPT ![n][i + 1] = [ptr |-> newPtr, del |-> newDel]]

\* A helpDelete that stores prev's link without the compare.
helpDeleteBlind(l, i, prev, curr, next) ==
    [ok |-> TRUE, l |-> dcasNext(l, prev, i, next, FALSE)]

\* Skiplist.helpDelete: swing prev past the marked curr.
helpDelete(l, i, prev, curr, next) ==
    IF dcasOk(l, prev, i, curr)
    THEN [ok |-> TRUE, l |-> dcasNext(l, prev, i, next, FALSE)]
    ELSE [ok |-> FALSE, l |-> l]

\* ------------------------------------------------------- the linked nodes
RECURSIVE chain(_, _)
\* The nodes of the level-0 list from n to the tail.
chain(n, acc) ==
    IF n = tail \/ n = Nil \/ n \in acc THEN acc
    ELSE chain(getNextPtr(link, n, 0), acc \cup {n})

\* The nodes linked in the store, and those of them that are not marked.
Linked == chain(getNextPtr(link, head, 0), {})
Live == {n \in Linked : ~getNextDel(link, n, 0)}

\* ---------------------------------------------------------------- findPath
RECURSIVE fpWalk(_, _, _, _, _, _)
\* A levelSearch loop that ends on the marked node it has just unlinked and
\* reports it as succs[i].
fpWalkStale(l, itm, c, i, prev, curr) ==
    IF getNextDel(l, curr, i)
    THEN [ok |-> TRUE, l |-> helpDelete(l, i, prev, curr, getNextPtr(l, curr, i)).l,
          prev |-> prev, curr |-> curr, cmp |-> 1]
    ELSE IF compare(c, curr, itm) < 0
    THEN fpWalk(l, itm, c, i, curr, getNextPtr(l, curr, i))
    ELSE [ok |-> TRUE, l |-> l, prev |-> prev, curr |-> curr,
          cmp |-> compare(c, curr, itm)]

\* The levelSearch loop of findPath at level i, from (prev, curr).
fpWalk(l, itm, c, i, prev, curr) ==
    IF getNextDel(l, curr, i)
    THEN LET r == helpDelete(l, i, prev, curr, getNextPtr(l, curr, i))
         IN  IF ~r.ok
             THEN [ok |-> FALSE, l |-> r.l, prev |-> prev, curr |-> curr, cmp |-> 1]
             ELSE fpWalk(r.l, itm, c, i, prev, getNextPtr(r.l, prev, i))
    ELSE LET v == compare(c, curr, itm)
         IN  IF v < 0
             THEN fpWalk(l, itm, c, i, curr, getNextPtr(l, curr, i))
             ELSE [ok |-> TRUE, l |-> l, prev |-> prev, curr |-> curr, cmp |-> v]

RECURSIVE fpLevels(_, _, _, _, _, _, _, _)
\* findPath after the search r of level i: a failed helpDelete restarts the
\* whole search (ok = FALSE), else preds[i], succs[i] are set and the level
\* below is searched from preds[i].
fpLevelDone(r, itm, c, i, preds, succs, v) ==
    IF ~r.ok
    THEN [ok |-> FALSE, l |-> r.l, preds |-> preds, succs |-> succs, cmp |-> v]
    ELSE fpLevels(r.l, itm, c, i - 1, r.prev,
                  [preds EXCEPT ![i + 1] = r.prev],
                  [succs EXCEPT ![i + 1] = r.curr], r.cmp)

\* The level loop of findPath, from level i down to 0.
fpLevels(l, itm, c, i, prev, preds, succs, v) ==
    IF i < 0
    THEN [ok |-> TRUE, l |-> l, preds |-> preds, succs |-> succs, cmp |-> v]
    ELSE fpLevelDone(fpWalk(l, itm, c, i, prev, getNextPtr(l, prev, i)),
                     itm, c, i, preds, succs, v)

NilBuf == [i \in 1..(MaxLevel + 1) |-> Nil]

RECURSIVE findPath(_, _, _, _)
\* fpDone reporting no node as found (cmpVal == 0 never seen).
fpDoneNeverFound(r, top, itm, c) ==
    IF ~r.ok
    THEN findPath(r.l, top, itm, c)
    ELSE [l |-> r.l, preds |-> r.preds, succs |-> r.succs, found |-> Nil]

\* findPath after one pass r over the levels: goto retry, or the result.
fpDone(r, top, itm, c) ==
    IF ~r.ok
    THEN findPath(r.l, top, itm, c)
    ELSE [l |-> r.l, preds |-> r.preds, succs |-> r.succs,
          found |-> IF r.cmp = 0 THEN r.succs[1] ELSE Nil]

\* Skiplist.findPath run to its end: the links after the unlinks it made, the
\* preds and succs of every level, and the found node (Nil when cmpVal # 0).
findPath(l, top, itm, c) ==
    fpDone(fpLevels(l, itm, c, top, head, NilBuf, NilBuf, 1), top, itm, c)

\* The item of node n, as a search key.
ItemOf(n) == [key |-> node[n].key, born |-> node[n].born]

\* ------------------------------------------------------ insert and delete
\* Skiplist.NewLevel with r successful draws of randFn: the level the new node
\* gets. The top level grows by at most one (the CAS of s.level).
NewLevel(top, r) ==
    LET nextLevel == IF r > MaxLevel THEN MaxLevel ELSE r
    IN  IF nextLevel > top THEN top + 1 ELSE nextLevel

\* The top level NewLevel leaves behind.
NewTop(top, r) == IF NewLevel(top, r) > top THEN top + 1 ELSE top

\* A fresh node of level lv: every NodeRef nil and unmarked.
FreshLinks(lv) == [i \in 1..(lv + 1) |-> [ptr |-> Nil, del |-> FALSE]]

RECURSIVE linkLevels(_, _, _, _, _, _, _, _)
\* The fixThisLevel loops of Insert3: link x at levels i..itemLevel.
linkLevels(l, top, x, itm, c, i, itemLevel, buf) ==
    IF i > itemLevel
    THEN l
    ELSE LET l1 == setNext(l, x, i, buf.succs[i + 1])
         IN  IF dcasOk(l1, buf.preds[i + 1], i, buf.succs[i + 1])
             THEN linkLevels(dcasNext(l1, buf.preds[i + 1], i, x, FALSE),
                             top, x, itm, c, i + 1, itemLevel, buf)
             ELSE LET f == findPath(l1, top, itm, c)
                  IN  linkLevels(f.l, top, x, itm, c, i, itemLevel, f)

RECURSIVE Insert3(_, _, _, _, _, _)
\* Insert3 after findPath gave f: the duplicate tests, then the CAS of level 0
\* (goto retry when it fails) and the links of the levels above.
insertFound(f, top, x, itm, c, eqCmp) ==
    IF f.found # Nil
    THEN [l |-> f.l, ok |-> FALSE]
    ELSE IF eqCmp # "none" /\ f.preds[1] # head
            /\ applyCmp(eqCmp, itm, node[f.preds[1]]) = 0
    THEN [l |-> f.l, ok |-> FALSE]
    ELSE IF ~dcasOk(f.l, f.preds[1], 0, f.succs[1])
    THEN Insert3(setNext(f.l, x, 0, f.succs[1]), top, x, itm, c, eqCmp)
    ELSE [l |-> linkLevels(dcasNext(setNext(f.l, x, 0, f.succs[1]),
                                    f.preds[1], 0, x, FALSE),
                           top, x, itm, c, 1, Len(f.l[x]) - 1, f),
          ok |-> TRUE]

\* Skiplist.Insert3 (skipFindPath = false) of node x with item itm. eqCmp is
\* "none" for a nil eqCmp. Returns the links and whether x was inserted.
Insert3(l, top, x, itm, c, eqCmp) ==
    insertFound(findPath(l, top, itm, c), top, x, itm, c, eqCmp)

RECURSIVE markLevels(_, _, _, _)
\* The level loop of softDelete, from level i down to 0; m is deleteMarked.
markLevels(l, n, i, m) ==
    IF i < 0
    THEN [l |-> l, ok |-> m]
    ELSE IF getNextDel(l, n, i)
         THEN markLevels(l, n, i - 1, m)
         ELSE markLevels(dcasNext(l, n, i, getNextPtr(l, n, i), TRUE), n, i - 1, TRUE)

\* Skiplist.softDelete: mark every level of delNode, top-down.
softDelete(l, n) == markLevels(l, n, Len(l[n]) - 1, FALSE)

\* Skiplist.DeleteNode / deleteNode: soft delete, then findPath unlinks.
DeleteNode(l, top, n, c) ==
    LET m == softDelete(l, n)
    IN  IF m.ok
        THEN [l |-> findPath(m.l, top, ItemOf(n), c).l, ok |-> TRUE]
        ELSE [l |-> m.l, ok |-> FALSE]

\* ------------------------------------------------------- skiplist iterator
\* A skiplist Iterator is [prev, curr, valid].
\* Iterator.SeekFirst
slSeekFirst(l) == [prev |-> head, curr |-> getNextPtr(l, head, 0), valid |-> TRUE]

\* Iterator.Seek: findPath, then (prev, curr) = (preds[0], succs[0]).
slSeek(l, top, itm, c) ==
    LET f == findPath(l, top, itm, c)
    IN  [l |-> f.l, found |-> f.found # Nil,
         i |-> [prev |-> f.preds[1], curr |-> f.succs[1], valid |-> TRUE]]

\* SeekPrev after Seek gave r: if !it.Seek(itm) { it.curr = it.prev; it.prev = nil }
seekPrevOf(r) ==
    IF r.found THEN r
    ELSE [r EXCEPT !.i = [prev |-> Nil, curr |-> r.i.prev, valid |-> TRUE]]

\* Iterator.SeekPrev: on a miss the predecessor becomes the current node.
slSeekPrev(l, top, itm, c) == seekPrevOf(slSeek(l, top, itm, c))

\* Iterator.Valid without the test for the tail.
slValidFlag(i) == i.valid

\* Iterator.Valid
slValid(i) == i.valid /\ i.curr # tail

RECURSIVE slNext(_, _, _, _)
\* Iterator.Next (it.deleted is false: Iterator.Delete is not used here).
slNext(l, top, i, c) ==
    LET next == getNextPtr(l, i.curr, 0)
    IN  IF getNextDel(l, i.curr, 0)
        THEN LET h == helpDelete(l, 0, i.prev, i.curr, next)
             IN  IF i.prev # Nil /\ h.ok
                 THEN [l |-> h.l, i |-> [prev |-> i.prev, curr |-> next, valid |-> TRUE]]
                 ELSE LET f == findPath(l, top, ItemOf(i.curr), c)
                          j == [prev |-> f.preds[1], curr |-> f.succs[1], valid |-> TRUE]
                      IN  IF f.found # Nil /\ i.curr = j.curr
                          THEN slNext(f.l, top, j, c)
                          ELSE [l |-> f.l, i |-> j]
        ELSE [l |-> l, i |-> [prev |-> i.curr, curr |-> next, valid |-> TRUE]]

\* ------------------------------------------------------------- MVCC: items
\* Wanted skipping the items born in the window of the snapshot as well.
WantedOlder(n, sn) ==
    ~(node[n].born >= sn \/ (node[n].dead > 0 /\ node[n].dead <= sn))

\* The visibility test of skipUnwanted, negated: the iterator stays on the item.
Wanted(n, sn) ==
    ~(node[n].born > sn \/ (node[n].dead > 0 /\ node[n].dead <= sn))

RECURSIVE getNodeLoop(_, _, _, _)
\* Writer.GetNode's loop after w.iter.Next() gave r: stop at the end of the
\* list or of the key, else go on from the next node.
getNodeNext(r, top, curr) ==
    IF ~slValid(r.i) THEN [l |-> r.l, n |-> curr]
    ELSE IF iterCmp(node[r.i.curr], node[curr]) # 0 THEN [l |-> r.l, n |-> curr]
    ELSE getNodeLoop(r.l, top, r.i, r.i.curr)

\* Writer.GetNode's loop: Next while the next node has the same key.
getNodeLoop(l, top, i, curr) == getNodeNext(slNext(l, top, i, "iter"), top, curr)

\* Writer.GetNode after its loop found g: nil for a node with a deadSn.
getNodeLive(g) == IF node[g.n].dead # 0 THEN [l |-> g.l, n |-> Nil] ELSE g

\* Writer.GetNode after w.iter.Seek(x) gave r.
getNodeFound(r, top) ==
    IF ~r.found THEN [l |-> r.l, n |-> Nil]
    ELSE getNodeLive(getNodeLoop(r.l, top, r.i, r.i.curr))

\* Writer.GetNode: the last node of the key, Nil when the key is absent or
\* that node has a deadSn.
GetNode(l, top, k) ==
    getNodeFound(slSeek(l, top, [key |-> k, born |-> 0], "iter"), top)

\* ------------------------------------------------ the snapshot skiplists
\* Skiplist.Insert with CompareSnapshot: rejected when the sn is present.
SnapInsert(set, s) ==
    IF \E t \in set : snap[t].sn = snap[s].sn THEN set ELSE set \cup {s}

\* Skiplist.Delete with CompareSnapshot: removes the node found for the sn.
SnapDelete(set, s) == {t \in set : snap[t].sn # snap[s].sn}

\* Iterator.SeekFirst on a snapshot skiplist: the snapshot of least sn.
SnapFirst(set) ==
    IF set = {} THEN NoSnap
    ELSE CHOOSE t \in set : \A u \in set : snap[t].sn <= snap[u].sn

\* Iterator.Next on a snapshot skiplist from the (deleted) snapshot s.
SnapNext(set, s) == SnapFirst({t \in set : snap[t].sn > snap[s].sn})

\* ------------------------------------------------------- the access barrier
\* The barrier of a skiplist: sess[t] is the session goroutine t holds (0 for
\* none; sessions are numbered as they are acquired), pend[n] the sessions
\* that keep the node n handed to the barrier from being freed.
NoSessions ==
    [sess |-> [t \in Threads |-> 0], next |-> 0,
     pend |-> [n \in NodeIds |-> {}], handed |-> {}, freed |-> {}]

\* The sessions acquired and not released.
ActiveSessions(b) == {b.sess[t] : t \in Threads} \ {0}

\* AccessBarrier.Acquire by goroutine t.
Acquire(b, t) == [b EXCEPT !.next = @ + 1, !.sess[t] = b.next + 1]

\* AccessBarrier.Release of the session of goroutine t: the nodes it kept
\* from being freed no longer wait for it.
Release(b, t) ==
    [b EXCEPT !.sess[t] = 0,
              !.pend = [n \in NodeIds |-> @[n] \ {b.sess[t]}]]

\* The unlinked node n is handed to the barrier for destruction: it waits
\* for every session that exists now.
handOff(b, n) ==
    [b EXCEPT !.handed = @ \cup {n}, !.pend[n] = ActiveSessions(b)]

\* ------------------------------------------------------------------- Init
IdleTh == [pc |-> "idle", x |-> Nil, sn |-> 0, s |-> NoSnap,
           hd |-> Nil, tl |-> Nil, wi |-> 0, dm |-> FALSE,
           buf |-> [preds |-> NilBuf, succs |-> NilBuf, found |-> Nil]]

NoIter == [pc |-> "none", op |-> "none", snap |-> NoSnap, prev |-> Nil,
           curr |-> Nil, valid |-> FALSE, count |-> 0, refreshRate |-> 0]

NoNode == [key |-> 0, born |-> 0, dead |-> 0, gclink |-> Nil]

NoSnapshot == [sn |-> 0, refCount |-> 0, count |-> 0, gclist |-> Nil,
               held |-> FALSE, ret |-> FALSE]

\* The record of a Delete(k) followed by a Put(k): nothing recorded.
NoDP == [ph |-> "none", k |-> 0, cnt |-> 0, x |-> Nil, same |-> FALSE]

\* The writers in the order of MemDB.wlist (NewWriter prepends).
wlist == [i \in 1..lim.writers |-> lim.writers + 1 - i]

\* No Visitor call.
NoVisit == [pc |-> "none", snap |-> NoSnap, err |-> Nil, iters |-> << >>,
            lasts |-> << >>, next |-> 0,
            wk |-> [w \in Workers |-> "none"], shard |-> [w \in Workers |-> 0],
            errors |-> << >>, ret |-> Nil]

\* NewWithConfig followed by L.writers calls of NewWriter; L is the workload.
InitWith(L) ==
    /\ lim = L
    /\ link = [n \in 0..MaxItems |->
                 IF n = head THEN [i \in 1..(MaxLevel + 1) |-> [ptr |-> tail, del |-> FALSE]]
                 ELSE << >>]
    /\ slLevel = 0
    /\ node = [n \in NodeIds |-> NoNode]
    /\ nAlloc = 0
    /\ currSn = 1
    /\ count = 0
    /\ leastUnrefSn = 0
    /\ lastGCSn = 0
    /\ isGCRunning = 0
    /\ snap = [s \in SnapIds |-> NoSnapshot]
    /\ nSnaps = 0
    /\ snapshots = {}
    /\ gcsnapshots = {}
    /\ gcchan = << >>
    /\ wr = [w \in Writers |-> [gchead |-> Nil, gctail |-> Nil]]
    /\ th = [t \in Threads |-> IdleTh]
    /\ gc = [pc |-> "off", cur |-> NoSnap]
    /\ cw = [w \in Writers |-> Nil]
    /\ it = NoIter
    /\ used = [del |-> 0, iter |-> 0]
    /\ barrier = NoSessions
    /\ vis = NoVisit
    /\ hist = [yielded |-> << >>,
               first |-> FALSE,
               scan0 |-> [s \in SnapIds |-> {}],
               reclaimed |-> {},
               done |-> {},
               after |-> [s \in SnapIds |-> {}],
               deleted |-> {},
               stamped |-> [n \in NodeIds |-> 0],
               pseq |-> [k \in Keys |-> << >>],
               dp |-> NoDP,
               dps |-> [s \in SnapIds |-> NoDP],
               atUnlink |-> [n \in NodeIds |-> {}],
               uaf |-> FALSE,
               ndel |-> 0,
               ret |-> [n \in NodeIds |-> "none"],
               marker |-> [n \in NodeIds |-> 0],
               delTrue |-> [n \in NodeIds |-> {}],
               delCalls |-> [n \in NodeIds |-> 0],
               gcActive |-> 0,
               visited |-> << >>,
               last |-> [k \in Keys |-> "none"],
               sought |-> 0,
               helped |-> << >>,
               since |-> [t \in Threads |-> "none"]]

\* ------------------------------------------------------------ a full scan
RECURSIVE scanSkip(_, _, _, _)
RECURSIVE scanSkipFrom(_, _, _)
\* Iterator.skipUnwanted of the MVCC iterator over a snapshot of number sn.
scanSkip(l, top, i, sn) ==
    IF ~slValid(i) \/ i.curr = head THEN [l |-> l, i |-> i]
    ELSE IF Wanted(i.curr, sn) THEN [l |-> l, i |-> i]
    ELSE scanSkipFrom(slNext(l, top, i, "iter"), top, sn)

scanSkipFrom(r, top, sn) == scanSkip(r.l, top, r.i, sn)

RECURSIVE scanRest(_, _, _, _, _)
scanRestFrom(r, top, sn, acc) == scanRest(r.l, top, r.i, sn, acc)

\* The scan at the position k skipUnwanted leaves: it ends on an iterator
\* that is not Valid, else the node is yielded and Next is called.
scanYield(k, top, sn, acc) ==
    IF ~slValid(k.i) \/ Len(acc) > MaxItems THEN acc
    ELSE scanRestFrom(slNext(k.l, top, k.i, "iter"), top, sn,
                      Append(acc, k.i.curr))

\* The items SeekFirst and repeated Next yield from position i on (no refresh).
scanRest(l, top, i, sn, acc) == scanYield(scanSkip(l, top, i, sn), top, sn, acc)

\* for itr.SeekFirst(); itr.Valid(); itr.Next(): the nodes a full scan of a
\* snapshot of number sn yields in the current store, in order.
FullScan(sn) == scanRest(link, slLevel, slSeekFirst(link), sn, << >>)

Range(q) == {q[j] : j \in 1..Len(q)}

ScanSet(sn) == Range(FullScan(sn))

\* --------------------------------------------------------------- the client
\* Goroutine t of the client may start a call: it is in no call, and no
\* goroutine has panicked. A serial workload (lim.serial) is one client
\* goroutine making all the calls, one after the other, beside the GC
\* goroutine and the collection workers.
CanCall(t) ==
    /\ th[t].pc = "idle"
    /\ it.pc # "panic"
    /\ lim.serial => /\ \A u \in Threads : th[u].pc = "idle"
                     /\ it.pc \notin {"skip", "refresh"}

\* The history h of the calls of one client goroutine; a workload of several
\* client goroutines keeps none (their calls overlap).
Client(h) ==
    IF lim.serial THEN h
    ELSE [h EXCEPT !.pseq = hist.pseq, !.dp = hist.dp, !.dps = hist.dps]

\* ------------------------------------------------------------- Writer.Put2
\* x.bornSn = w.getCurrSn()
PutBegin(w, k) ==
    /\ CanCall(w)
    /\ nAlloc < lim.items
    /\ nAlloc' = nAlloc + 1
    /\ node' = [node EXCEPT ![nAlloc + 1] =
                   [key |-> k, born |-> currSn, dead |-> 0, gclink |-> Nil]]
    /\ th' = [th EXCEPT ![w] = [IdleTh EXCEPT !.pc = "put_ins", !.x = nAlloc + 1]]
    /\ hist' = Client([hist EXCEPT !.dp = IF @.ph = "del" /\ @.k = k
                                          THEN [@ EXCEPT !.ph = "put?", !.x = nAlloc + 1]
                                          ELSE NoDP])
    /\ UNCHANGED << vis, barrier, lim, link, slLevel, currSn, count, leastUnrefSn, lastGCSn,
                    isGCRunning, snap, nSnaps, snapshots, gcsnapshots, gcchan,
                    wr, gc, cw, it, used >>

\* The eqCmp Put2 hands to the skiplist: Put2 passes insCmp alone.
PutEqCmp == "none"

\* The end of Put2 after Insert2 gave res: a rejected Put returns nil.
PutInserted(w, res) ==
    /\ link' = res.l
    /\ th' = [th EXCEPT ![w] = IF res.ok THEN [@ EXCEPT !.pc = "put_cnt"] ELSE IdleTh]
    /\ hist' = IF res.ok THEN hist
               ELSE Client([hist EXCEPT
                       !.pseq[node[th[w].x].key] = Append(@, [x |-> th[w].x, ok |-> FALSE]),
                       !.dp = NoDP])

\* w.store.Insert2(x, w.insCmp, w.buf, w.rand.Float32): NewLevel, then Insert3.
PutInsert(w) ==
    /\ th[w].pc = "put_ins"
    /\ \E r \in 0..lim.level :
         /\ slLevel' = NewTop(slLevel, r)
         /\ PutInserted(w, Insert3([link EXCEPT ![th[w].x] = FreshLinks(NewLevel(slLevel, r))],
                                   NewTop(slLevel, r), th[w].x, ItemOf(th[w].x),
                                   "ins", PutEqCmp))
    /\ UNCHANGED << vis, barrier, lim, node, nAlloc, currSn, count, leastUnrefSn, lastGCSn,
                    isGCRunning, snap, nSnaps, snapshots, gcsnapshots, gcchan,
                    wr, gc, cw, it, used >>

\* atomic.AddInt64(&w.count, 1); return
PutCount(w) ==
    /\ th[w].pc = "put_cnt"
    /\ count' = count + 1
    /\ th' = [th EXCEPT ![w] = IdleTh]
    /\ hist' = [Client([hist EXCEPT
                   !.pseq[node[th[w].x].key] = Append(@, [x |-> th[w].x, ok |-> TRUE]),
                   !.dp = IF @.ph = "put?"
                          THEN [@ EXCEPT !.ph = "put", !.same = (count + 1 = hist.dp.cnt)]
                          ELSE NoDP])
                EXCEPT !.done = @ \cup {th[w].x},
                       !.last[node[th[w].x].key] = "put"]
    /\ UNCHANGED << vis, barrier, lim, link, slLevel, node, nAlloc, currSn, leastUnrefSn, lastGCSn,
                    isGCRunning, snap, nSnaps, snapshots, gcsnapshots, gcchan,
                    wr, gc, cw, it, used >>

\* --------------------------------------------------- Writer.Delete2 / DeleteNode
\* Delete2 after GetNode gave g: a nil node ends the call.
DeleteFound(w, k, g) ==
    /\ link' = g.l
    /\ th' = [th EXCEPT ![w] = IF g.n = Nil THEN IdleTh
                               ELSE [IdleTh EXCEPT !.pc = "del_sn", !.x = g.n]]
    /\ hist' = Client([hist EXCEPT
                   !.pseq[k] = << >>,
                   !.dp = IF g.n = Nil THEN NoDP
                          ELSE [NoDP EXCEPT !.ph = "del?", !.k = k, !.cnt = count]])

\* n = w.GetNode(x)
DeleteBegin(w, k) ==
    /\ CanCall(w)
    /\ used.del < lim.dels
    /\ used' = [used EXCEPT !.del = @ + 1]
    /\ DeleteFound(w, k, GetNode(link, slLevel, k))
    /\ UNCHANGED << vis, barrier, lim, slLevel, node, nAlloc, currSn, count, leastUnrefSn, lastGCSn,
                    isGCRunning, snap, nSnaps, snapshots, gcsnapshots, gcchan,
                    wr, gc, cw, it >>

\* sn := w.getCurrSn()
DeleteReadSn(w) ==
    /\ th[w].pc = "del_sn"
    /\ th' = [th EXCEPT ![w].pc = "del_do", ![w].sn = currSn]
    /\ UNCHANGED << vis, barrier, lim, link, slLevel, node, nAlloc, currSn, count, leastUnrefSn,
                    lastGCSn, isGCRunning, snap, nSnaps, snapshots, gcsnapshots,
                    gcchan, wr, gc, cw, it, used, hist >>

\* success = w.store.DeleteNode(x, w.insCmp, w.buf), which gave d.
DeleteUnlinked(w, d) ==
    /\ link' = d.l
    /\ node' = node
    /\ th' = [th EXCEPT ![w] = IF d.ok THEN [@ EXCEPT !.pc = "del_cnt"] ELSE IdleTh]
    /\ hist' = IF d.ok THEN [hist EXCEPT !.deleted = @ \cup {th[w].x}]
               ELSE Client([hist EXCEPT !.dp = NoDP])

\* success = atomic.CompareAndSwapUint32(&gotItem.deadSn, 0, sn)
DeleteStamp(w) ==
    /\ link' = link
    /\ IF node[th[w].x].dead = 0
       THEN /\ node' = [node EXCEPT ![th[w].x].dead = th[w].sn]
            /\ th' = [th EXCEPT ![w].pc = "del_gc"]
            /\ hist' = [hist EXCEPT !.deleted = @ \cup {th[w].x},
                                    !.stamped[th[w].x] = th[w].sn]
       ELSE /\ node' = node
            /\ th' = [th EXCEPT ![w] = IdleTh]
            /\ hist' = Client([hist EXCEPT !.dp = NoDP])

\* if gotItem.bornSn == sn { store.DeleteNode } else { CAS(&deadSn, 0, sn) }
DeleteDo(w) ==
    /\ th[w].pc = "del_do"
    /\ IF node[th[w].x].born = th[w].sn
       THEN DeleteUnlinked(w, DeleteNode(link, slLevel, th[w].x, "ins"))
       ELSE DeleteStamp(w)
    /\ UNCHANGED << vis, barrier, lim, slLevel, nAlloc, currSn, count, leastUnrefSn, lastGCSn,
                    isGCRunning, snap, nSnaps, snapshots, gcsnapshots, gcchan,
                    wr, gc, cw, it, used >>

\* The append of x to the writer's (gchead, gctail) list.
DeleteGc(w) ==
    /\ th[w].pc = "del_gc"
    /\ LET x == th[w].x
       IN  IF wr[w].gctail = Nil
           THEN /\ wr' = [wr EXCEPT ![w] = [gchead |-> x, gctail |-> x]]
                /\ node' = node
           ELSE /\ node' = [node EXCEPT ![wr[w].gctail].gclink = x]
                /\ wr' = [wr EXCEPT ![w].gctail = x]
    /\ th' = [th EXCEPT ![w].pc = "del_cnt"]
    /\ UNCHANGED << vis, barrier, lim, link, slLevel, nAlloc, currSn, count, leastUnrefSn, lastGCSn,
                    isGCRunning, snap, nSnaps, snapshots, gcsnapshots, gcchan,
                    gc, cw, it, used, hist >>

\* The deferred atomic.AddInt64(&w.count, -1) of a successful DeleteNode.
DeleteCount(w) ==
    /\ th[w].pc = "del_cnt"
    /\ count' = count - 1
    /\ th' = [th EXCEPT ![w] = IdleTh]
    /\ hist' = [Client([hist EXCEPT !.dp = IF @.ph = "del?" THEN [@ EXCEPT !.ph = "del"]
                                           ELSE NoDP])
                EXCEPT !.ndel = @ + 1,
                       !.last[node[th[w].x].key] = "del"]
    /\ UNCHANGED << vis, barrier, lim, link, slLevel, node, nAlloc, currSn, leastUnrefSn, lastGCSn,
                    isGCRunning, snap, nSnaps, snapshots, gcsnapshots, gcchan,
                    wr, gc, cw, it, used >>

\* ------------------------------------------------------- MemDB.NewSnapshot
\* The number of nodes linked in the store (NodeCount), dead versions included.
NodeCount == Cardinality(Linked)

\* MemDB.ItemsCount: atomic.LoadInt64(&m.count)
ItemsCount == count

\* snap := &Snapshot{db: m, sn: m.getCurrSn(), refCount: 1, count: m.ItemsCount()}
SnapBegin(w) ==
    /\ CanCall(w)
    /\ nSnaps < lim.snaps
    /\ nSnaps' = nSnaps + 1
    /\ snap' = [snap EXCEPT ![nSnaps + 1] =
                   [sn |-> currSn, refCount |-> 1, count |-> ItemsCount,
                    gclist |-> Nil, held |-> FALSE, ret |-> FALSE]]
    /\ th' = [th EXCEPT ![w] = [IdleTh EXCEPT !.pc = "ns_ins", !.s = nSnaps + 1]]
    /\ hist' = [Client([hist EXCEPT !.pseq = [k \in Keys |-> << >>],
                                    !.dp = IF @.ph = "put" THEN @ ELSE NoDP])
                EXCEPT !.after[nSnaps + 1] = hist.done]
    /\ UNCHANGED << vis, barrier, lim, link, slLevel, node, nAlloc, currSn, count, leastUnrefSn,
                    lastGCSn, isGCRunning, snapshots, gcsnapshots, gcchan, wr,
                    gc, cw, it, used >>

\* m.snapshots.Insert(snap, CompareSnapshot, buf)
SnapInsertLive(w) ==
    /\ th[w].pc = "ns_ins"
    /\ snapshots' = SnapInsert(snapshots, th[w].s)
    /\ th' = [th EXCEPT ![w].pc = "ns_add"]
    /\ UNCHANGED << vis, barrier, lim, link, slLevel, node, nAlloc, currSn, count, leastUnrefSn,
                    lastGCSn, isGCRunning, snap, nSnaps, gcsnapshots, gcchan, wr,
                    gc, cw, it, used, hist >>

\* atomic.AddUint32(&m.currSn, 1)
SnapAddSn(w) ==
    /\ th[w].pc = "ns_add"
    /\ currSn' = currSn + 1
    /\ th' = [th EXCEPT ![w].pc = "ns_gc", ![w].wi = 1]
    /\ UNCHANGED << vis, barrier, lim, link, slLevel, node, nAlloc, count, leastUnrefSn, lastGCSn,
                    isGCRunning, snap, nSnaps, snapshots, gcsnapshots, gcchan,
                    wr, gc, cw, it, used, hist >>

\* One iteration of the loop over m.wlist, which stitches the writer's list to
\* the chain (head, tail) and clears it; after the last writer snap.gclist =
\* head and the snapshot is returned to the caller.
SnapStitch(w) ==
    /\ th[w].pc = "ns_gc"
    /\ LET v == wlist[th[w].wi]
           first == th[w].tl = Nil
           hd == IF first THEN wr[v].gchead ELSE th[w].hd
           tl == IF first \/ wr[v].gchead # Nil THEN wr[v].gctail ELSE th[w].tl
           last == th[w].wi = lim.writers
           s == th[w].s
       IN  /\ node' = IF ~first /\ wr[v].gchead # Nil
                      THEN [node EXCEPT ![th[w].tl].gclink = wr[v].gchead]
                      ELSE node
           /\ wr' = [wr EXCEPT ![v] = [gchead |-> Nil, gctail |-> Nil]]
           /\ IF last
              THEN /\ snap' = [snap EXCEPT ![s].gclist = hd, ![s].held = TRUE,
                                          ![s].ret = TRUE]
                   /\ th' = [th EXCEPT ![w] = IdleTh]
                   /\ hist' = [Client([hist EXCEPT !.dps[s] = hist.dp, !.dp = NoDP])
                               EXCEPT !.scan0[s] = ScanSet(snap[s].sn)]
              ELSE /\ snap' = snap
                   /\ th' = [th EXCEPT ![w].hd = hd, ![w].tl = tl, ![w].wi = @ + 1]
                   /\ hist' = hist
    /\ UNCHANGED << vis, barrier, lim, link, slLevel, nAlloc, currSn, count, leastUnrefSn, lastGCSn,
                    isGCRunning, nSnaps, snapshots, gcsnapshots, gcchan, gc, cw,
                    it, used >>

\* ----------------------------------------------------------- Snapshot.Close
\* newRefcount := atomic.AddInt32(&s.refCount, -1), by goroutine t.
CloseDec(t, s, h) ==
    /\ snap' = [snap EXCEPT ![s].refCount = @ - 1, ![s].held = h]
    /\ th' = [th EXCEPT ![t] =
                 IF snap[s].refCount - 1 = 0
                 THEN [IdleTh EXCEPT !.pc = "cl_del", !.s = s]
                 ELSE IdleTh]

\* A writer goroutine closes the reference NewSnapshot returned.
CloseBegin(w, s) ==
    /\ CanCall(w)
    /\ snap[s].held
    /\ CloseDec(w, s, FALSE)
    /\ UNCHANGED << vis, barrier, lim, link, slLevel, node, nAlloc, currSn, count, leastUnrefSn,
                    lastGCSn, isGCRunning, nSnaps, snapshots, gcsnapshots, gcchan,
                    wr, gc, cw, it, used, hist >>

\* s.db.snapshots.Delete(s, CompareSnapshot, buf)
CloseDelete(t) ==
    /\ th[t].pc = "cl_del"
    /\ snapshots' = SnapDelete(snapshots, th[t].s)
    /\ th' = [th EXCEPT ![t].pc = "cl_ins"]
    /\ UNCHANGED << vis, barrier, lim, link, slLevel, node, nAlloc, currSn, count, leastUnrefSn,
                    lastGCSn, isGCRunning, snap, nSnaps, gcsnapshots, gcchan, wr,
                    gc, cw, it, used, hist >>

\* s.db.gcsnapshots.Insert(s, CompareSnapshot, buf)
CloseInsertDead(t) ==
    /\ th[t].pc = "cl_ins"
    /\ gcsnapshots' = SnapInsert(gcsnapshots, th[t].s)
    /\ th' = [th EXCEPT ![t].pc = "cl_least"]
    /\ UNCHANGED << vis, barrier, lim, link, slLevel, node, nAlloc, currSn, count, leastUnrefSn,
                    lastGCSn, isGCRunning, snap, nSnaps, snapshots, gcchan, wr,
                    gc, cw, it, used, hist >>

\* setLeastUnrefSn: iter.SeekFirst(); if iter.Valid() { snap := iter.Get() ...
CloseLeastRead(t) ==
    /\ th[t].pc = "cl_least"
    /\ th' = [th EXCEPT ![t] =
                 IF snapshots = {}
                 THEN [@ EXCEPT !.pc = "cl_gc"]
                 ELSE [@ EXCEPT !.pc = "cl_store", !.sn = snap[SnapFirst(snapshots)].sn]]
    /\ UNCHANGED << vis, barrier, lim, link, slLevel, node, nAlloc, currSn, count, leastUnrefSn,
                    lastGCSn, isGCRunning, snap, nSnaps, snapshots, gcsnapshots,
                    gcchan, wr, gc, cw, it, used, hist >>

\* ... atomic.StoreUint32(&m.leastUnrefSn, snap.sn-1) }
CloseLeastStore(t) ==
    /\ th[t].pc = "cl_store"
    /\ leastUnrefSn' = th[t].sn - 1
    /\ th' = [th EXCEPT ![t].pc = "cl_gc"]
    /\ UNCHANGED << vis, barrier, lim, link, slLevel, node, nAlloc, currSn, count, lastGCSn,
                    isGCRunning, snap, nSnaps, snapshots, gcsnapshots, gcchan,
                    wr, gc, cw, it, used, hist >>

\* A GC that every Close starts, whatever the flag holds.
gcCasAlways == TRUE

\* atomic.CompareAndSwapInt32(&s.db.isGCRunning, 0, 1) succeeds.
gcCasOk == isGCRunning = 0

\* if atomic.CompareAndSwapInt32(&s.db.isGCRunning, 0, 1) { go s.db.GC() }
CloseStartGC(t) ==
    /\ th[t].pc = "cl_gc"
    /\ IF gcCasOk
       THEN /\ isGCRunning' = 1
            /\ gc' = [pc |-> "start", cur |-> NoSnap]
            /\ hist' = [hist EXCEPT !.gcActive = @ + 1]
       ELSE UNCHANGED << isGCRunning, gc, hist >>
    /\ th' = [th EXCEPT ![t] = IdleTh]
    /\ UNCHANGED << vis, barrier, lim, link, slLevel, node, nAlloc, currSn, count, leastUnrefSn,
                    lastGCSn, snap, nSnaps, snapshots, gcsnapshots, gcchan, wr,
                    cw, it, used >>

\* ------------------------------------------------------------------ MemDB.GC
\* sn := m.getLeastUnrefSn(); if sn != m.lastGCSn && sn > 0 { m.lastGCSn = sn ...
GCStart ==
    /\ gc.pc = "start"
    /\ IF leastUnrefSn # lastGCSn /\ leastUnrefSn > 0
       THEN /\ lastGCSn' = leastUnrefSn
            /\ gc' = [gc EXCEPT !.pc = "cd_first"]
       ELSE /\ lastGCSn' = lastGCSn
            /\ gc' = [gc EXCEPT !.pc = "end"]
    /\ UNCHANGED << vis, barrier, lim, link, slLevel, node, nAlloc, currSn, count, leastUnrefSn,
                    isGCRunning, snap, nSnaps, snapshots, gcsnapshots, gcchan,
                    wr, th, cw, it, used, hist >>

\* collectDead: iter.SeekFirst() on m.gcsnapshots
GCSeekFirst ==
    /\ gc.pc = "cd_first"
    /\ gc' = [pc |-> "cd_loop", cur |-> SnapFirst(gcsnapshots)]
    /\ UNCHANGED << vis, barrier, lim, link, slLevel, node, nAlloc, currSn, count, leastUnrefSn,
                    lastGCSn, isGCRunning, snap, nSnaps, snapshots, gcsnapshots,
                    gcchan, wr, th, cw, it, used, hist >>

\* for ; iter.Valid(); ... { if sn.sn > m.getLeastUnrefSn() { return }
\*                           m.gcchan <- sn.gclist
GCSend ==
    /\ gc.pc = "cd_loop"
    /\ IF gc.cur = NoSnap \/ snap[gc.cur].sn > leastUnrefSn
       THEN /\ gc' = [pc |-> "end", cur |-> NoSnap]
            /\ gcchan' = gcchan
       ELSE /\ gc' = [gc EXCEPT !.pc = "cd_del"]
            /\ gcchan' = Append(gcchan, snap[gc.cur].gclist)
    /\ UNCHANGED << vis, barrier, lim, link, slLevel, node, nAlloc, currSn, count, leastUnrefSn,
                    lastGCSn, isGCRunning, snap, nSnaps, snapshots, gcsnapshots,
                    wr, th, cw, it, used, hist >>

\* m.gcsnapshots.DeleteNode(node, CompareSnapshot, buf2); iter.Next()
GCDelete ==
    /\ gc.pc = "cd_del"
    /\ gcsnapshots' = gcsnapshots \ {gc.cur}
    /\ gc' = [pc |-> "cd_loop", cur |-> SnapNext(gcsnapshots \ {gc.cur}, gc.cur)]
    /\ UNCHANGED << vis, barrier, lim, link, slLevel, node, nAlloc, currSn, count, leastUnrefSn,
                    lastGCSn, isGCRunning, snap, nSnaps, snapshots, gcchan, wr,
                    th, cw, it, used, hist >>

\* atomic.CompareAndSwapInt32(&m.isGCRunning, 1, 0)
GCEnd ==
    /\ gc.pc = "end"
    /\ isGCRunning' = IF isGCRunning = 1 THEN 0 ELSE isGCRunning
    /\ gc' = [pc |-> "off", cur |-> NoSnap]
    /\ hist' = [hist EXCEPT !.gcActive = @ - 1]
    /\ UNCHANGED << vis, barrier, lim, link, slLevel, node, nAlloc, currSn, count, leastUnrefSn,
                    lastGCSn, snap, nSnaps, snapshots, gcsnapshots, gcchan, wr,
                    th, cw, it, used >>

\* ------------------------------------------------------ MemDB.collectionWorker
\* for gclist := range m.gcchan: the worker of writer w takes a list.
WorkerRecv(w) ==
    /\ cw[w] = Nil
    /\ gcchan # << >>
    /\ cw' = [cw EXCEPT ![w] = gcchan[1]]
    /\ gcchan' = SubSeq(gcchan, 2, Len(gcchan))
    /\ UNCHANGED << vis, barrier, lim, link, slLevel, node, nAlloc, currSn, count, leastUnrefSn,
                    lastGCSn, isGCRunning, snap, nSnaps, snapshots, gcsnapshots,
                    wr, th, gc, it, used, hist >>

\* m.store.DeleteNode(n, m.insCmp, buf); n = n.GClink
WorkerDelete(w) ==
    /\ cw[w] # Nil
    /\ LET d == DeleteNode(link, slLevel, cw[w], "ins")
       IN  /\ link' = d.l
           /\ hist' = IF d.ok THEN [hist EXCEPT !.reclaimed = @ \cup {cw[w]}] ELSE hist
    /\ cw' = [cw EXCEPT ![w] = node[cw[w]].gclink]
    /\ UNCHANGED << vis, barrier, lim, slLevel, node, nAlloc, currSn, count, leastUnrefSn, lastGCSn,
                    isGCRunning, snap, nSnaps, snapshots, gcsnapshots, gcchan,
                    wr, th, gc, it, used >>

\* ------------------------------------------- MemDB.NewIterator / Snapshot.Open
\* snap.Open(): if atomic.LoadInt32(&s.refCount) == 0 { return false }
OpenLoad(s, r) ==
    /\ CanCall(Reader)
    /\ it.pc = "none"
    /\ snap[s].ret
    /\ used.iter < lim.iters
    /\ used' = [used EXCEPT !.iter = @ + 1]
    /\ th' = [th EXCEPT ![Reader] =
                 IF snap[s].refCount = 0 THEN IdleTh
                 ELSE [IdleTh EXCEPT !.pc = "open_add", !.s = s, !.sn = r]]
    /\ UNCHANGED << vis, barrier, lim, link, slLevel, node, nAlloc, currSn, count, leastUnrefSn,
                    lastGCSn, isGCRunning, snap, nSnaps, snapshots, gcsnapshots,
                    gcchan, wr, gc, cw, it, hist >>

\* atomic.AddInt32(&s.refCount, 1); return true, and NewIterator builds the
\* Iterator (SetRefreshRate gives it the refresh rate th.sn).
OpenAdd ==
    /\ th[Reader].pc = "open_add"
    /\ snap' = [snap EXCEPT ![th[Reader].s].refCount = @ + 1]
    /\ it' = [NoIter EXCEPT !.pc = "new", !.snap = th[Reader].s,
                            !.refreshRate = th[Reader].sn]
    /\ th' = [th EXCEPT ![Reader] = IdleTh]
    /\ hist' = [hist EXCEPT !.yielded = << >>]
    /\ UNCHANGED << vis, barrier, lim, link, slLevel, node, nAlloc, currSn, count, leastUnrefSn,
                    lastGCSn, isGCRunning, nSnaps, snapshots, gcsnapshots, gcchan,
                    wr, gc, cw, used >>

\* ------------------------------------------------------------- MVCC Iterator
\* The position an operation of the iterator ends on, as the caller (Valid,
\* Get, GetNode) sees it: the node, and whether skipUnwanted's test accepts it.
Position(i) == [n |-> i.curr, ok |-> Wanted(i.curr, snap[i.snap].sn)]

\* The end of SeekFirst, Seek and Next: the iterator is handed back.
Ready(i) ==
    /\ it' = [i EXCEPT !.pc = "ready", !.op = "none"]
    /\ hist' = IF slValid(i)
               THEN [hist EXCEPT !.yielded = Append(@, Position(i))]
               ELSE hist

\* Iterator.SeekFirst: it.iter.SeekFirst(), then skipUnwanted.
ItSeekFirst ==
    /\ it.pc = "new"
    /\ CanCall(Reader)
    /\ LET i == slSeekFirst(link)
       IN  it' = [it EXCEPT !.pc = "skip", !.op = "first", !.prev = i.prev,
                            !.curr = i.curr, !.valid = i.valid]
    /\ hist' = [hist EXCEPT !.yielded = << >>, !.first = TRUE]
    /\ UNCHANGED << vis, barrier, lim, link, slLevel, node, nAlloc, currSn, count, leastUnrefSn,
                    lastGCSn, isGCRunning, snap, nSnaps, snapshots, gcsnapshots,
                    gcchan, wr, th, gc, cw, used >>

\* Iterator.Seek: it.iter.SeekPrev(itm), then skipUnwanted.
ItSeek(k) ==
    /\ it.pc = "new"
    /\ CanCall(Reader)
    /\ LET r == slSeekPrev(link, slLevel, [key |-> k, born |-> 0], "iter")
       IN  /\ link' = r.l
           /\ it' = [it EXCEPT !.pc = "skip", !.op = "seek", !.prev = r.i.prev,
                               !.curr = r.i.curr, !.valid = r.i.valid]
    /\ hist' = [hist EXCEPT !.yielded = << >>, !.first = FALSE, !.sought = k]
    /\ UNCHANGED << vis, barrier, lim, slLevel, node, nAlloc, currSn, count, leastUnrefSn, lastGCSn,
                    isGCRunning, snap, nSnaps, snapshots, gcsnapshots, gcchan,
                    wr, th, gc, cw, used >>

\* Iterator.Next: it.iter.Next(); it.count++, then skipUnwanted. The caller
\* calls it on a Valid iterator.
ItNext ==
    /\ it.pc = "ready"
    /\ CanCall(Reader)
    /\ slValid(it)
    /\ Len(hist.yielded) < MaxYield
    /\ LET r == slNext(link, slLevel, it, "iter")
       IN  /\ link' = r.l
           /\ it' = [it EXCEPT !.pc = "skip", !.op = "next", !.prev = r.i.prev,
                               !.curr = r.i.curr, !.valid = r.i.valid,
                               !.count = @ + 1]
    /\ hist' = [hist EXCEPT !.sought = 0]
    /\ UNCHANGED << vis, barrier, lim, slLevel, node, nAlloc, currSn, count, leastUnrefSn, lastGCSn,
                    isGCRunning, snap, nSnaps, snapshots, gcsnapshots, gcchan,
                    wr, th, gc, cw, used >>

\* One round of skipUnwanted: on an unwanted item it.iter.Next(); it.count++
\* and again; otherwise the operation ends, through Refresh when Next is due
\* one. Get on the head sentinel (Seek before the first key) is a nil item.
ItSkip ==
    /\ it.pc = "skip"
    /\ IF slValid(it) /\ it.curr = head
       THEN /\ it' = [it EXCEPT !.pc = "panic"]
            /\ UNCHANGED << link, hist >>
       ELSE IF slValid(it) /\ ~Wanted(it.curr, snap[it.snap].sn)
       THEN LET r == slNext(link, slLevel, it, "iter")
            IN  /\ link' = r.l
                /\ it' = [it EXCEPT !.prev = r.i.prev, !.curr = r.i.curr,
                                    !.valid = r.i.valid, !.count = @ + 1]
                /\ hist' = hist
       ELSE IF it.op = "next" /\ it.refreshRate > 0 /\ it.count > it.refreshRate
       THEN /\ it' = [it EXCEPT !.pc = "refresh"]
            /\ UNCHANGED << link, hist >>
       ELSE /\ Ready(it)
            /\ link' = link
    /\ UNCHANGED << vis, barrier, lim, slLevel, node, nAlloc, currSn, count, leastUnrefSn, lastGCSn,
                    isGCRunning, snap, nSnaps, snapshots, gcsnapshots, gcchan,
                    wr, th, gc, cw, used >>

\* Iterator.Refresh inside Next: on a Valid iterator a new skiplist iterator
\* is made and it.iter.Seek(itm) of the current item; then it.count = 0.
ItRefresh ==
    /\ it.pc = "refresh"
    /\ IF slValid(it)
       THEN LET r == slSeek(link, slLevel, ItemOf(it.curr), "iter")
            IN  /\ link' = r.l
                /\ Ready([it EXCEPT !.prev = r.i.prev, !.curr = r.i.curr,
                                    !.valid = r.i.valid, !.count = 0])
       ELSE /\ link' = link
            /\ Ready([it EXCEPT !.count = 0])
    /\ UNCHANGED << vis, barrier, lim, slLevel, node, nAlloc, currSn, count, leastUnrefSn, lastGCSn,
                    isGCRunning, snap, nSnaps, snapshots, gcsnapshots, gcchan,
                    wr, th, gc, cw, used >>

\* Iterator.Close: it.snap.Close() by the reader.
ItClose ==
    /\ it.pc \in {"new", "ready"}
    /\ CanCall(Reader)
    /\ CloseDec(Reader, it.snap, snap[it.snap].held)
    /\ it' = NoIter
    /\ hist' = [hist EXCEPT !.yielded = << >>, !.first = FALSE]
    /\ UNCHANGED << vis, barrier, lim, link, slLevel, node, nAlloc, currSn, count, leastUnrefSn,
                    lastGCSn, isGCRunning, nSnaps, snapshots, gcsnapshots, gcchan,
                    wr, gc, cw, used >>

\* ------------------------------------- the skiplist with an active barrier
\* A skiplist made by NewWithMM with a destructor: its users are goroutines
\* that call Insert and DeleteNode and one that iterates. (The store of a
\* MemDB is made by New, without a destructor: none of its nodes is freed.)

\* hist.since[u], kept by the steps of the goroutines on the skiplist: what
\* the other goroutines did to the links since goroutine u last read them in a
\* call that has not returned: "cas" when a CAS of another goroutine
\* succeeded, "store" when there was only a plain store (setNext) into a
\* linked node, else "none". Goroutine t makes a change of that kind.
sinceNoted(t, kind) ==
    [u \in Threads |->
        IF u = t \/ th[u].pc = "idle" THEN hist.since[u]
        ELSE IF kind = "cas" \/ hist.since[u] = "cas" THEN "cas"
        ELSE IF kind = "store" THEN "store"
        ELSE hist.since[u]]

\* hist.since after a step of goroutine t: own is the new value of t itself
\* ("none" when the step reads the links anew or ends the call).
sinceStep(t, own, kind) == [sinceNoted(t, kind) EXCEPT ![t] = own]

\* A search changes the links l0 to l1 only with the CAS of a helpDelete.
helpedKind(l0, l1) == IF l0 # l1 THEN "cas" ELSE "none"

\* Insert3 after its findPath gave f: the buffer is filled.
insertSought(t, x, f) ==
    /\ link' = f.l
    /\ hist' = [hist EXCEPT !.since =
                   sinceStep(t, "none", helpedKind([link EXCEPT ![x] = f.l[x]], f.l))]
    /\ th' = [th EXCEPT ![t] = [IdleTh EXCEPT
                  !.pc = "ins_link", !.x = x,
                  !.buf = [preds |-> f.preds, succs |-> f.succs, found |-> f.found]]]

\* Skiplist.Insert of key k by goroutine t, up to the end of findPath:
\* NewLevel, Acquire, newNode, findPath.
InsertFind(t, k) ==
    /\ th[t].pc = "idle"
    /\ nAlloc < lim.items
    /\ nAlloc' = nAlloc + 1
    /\ node' = [node EXCEPT ![nAlloc + 1] = [NoNode EXCEPT !.key = k]]
    /\ barrier' = Acquire(barrier, t)
    /\ \E r \in 0..lim.level :
         /\ slLevel' = NewTop(slLevel, r)
         /\ insertSought(t, nAlloc + 1,
                         findPath([link EXCEPT ![nAlloc + 1] = FreshLinks(NewLevel(slLevel, r))],
                                  NewTop(slLevel, r), [key |-> k, born |-> 0], "ins"))
    /\ UNCHANGED << vis, lim, currSn, count, leastUnrefSn, lastGCSn, isGCRunning, snap,
                    nSnaps, snapshots, gcsnapshots, gcchan, wr, gc, cw, it, used >>

\* The nodes Insert3 reaches through the buffer of goroutine t after findPath:
\* preds[i] of every level of the new node, when no equal item was found.
insertReads(t) ==
    IF th[t].buf.found # Nil THEN {}
    ELSE {th[t].buf.preds[i] : i \in 1..Len(link[th[t].x])} \ {head}

\* Insert3 returns res: (x, true) or (nil, false).
insertDone(t, res) ==
    /\ link' = res.l
    /\ hist' = [hist EXCEPT !.uaf = @ \/ insertReads(t) \cap barrier.freed # {},
                            !.ret[th[t].x] = IF res.ok THEN "true" ELSE "false",
                            !.since = sinceStep(t, "none", helpedKind(link, res.l))]

\* Skiplist.Insert of goroutine t from the end of findPath on: the CAS of
\* preds[0] and what follows it, then the deferred Release.
InsertLink(t) ==
    /\ th[t].pc = "ins_link"
    /\ insertDone(t, insertFound([l |-> link, preds |-> th[t].buf.preds,
                                  succs |-> th[t].buf.succs, found |-> th[t].buf.found],
                                 slLevel, th[t].x, ItemOf(th[t].x), "ins", "none"))
    /\ barrier' = Release(barrier, t)
    /\ th' = [th EXCEPT ![t] = IdleTh]
    /\ UNCHANGED << vis, lim, slLevel, node, nAlloc, currSn, count, leastUnrefSn, lastGCSn,
                    isGCRunning, snap, nSnaps, snapshots, gcsnapshots, gcchan,
                    wr, gc, cw, it, used >>

\* Skiplist.DeleteNode after deleteNode gave d, under the session of b: the
\* node this call has unlinked goes to the barrier, then the deferred Release.
deleteNodeDone(t, n, d, b) ==
    /\ link' = d.l
    /\ barrier' = Release(IF d.ok THEN handOff(b, n) ELSE b, t)
    /\ hist' = [hist EXCEPT !.atUnlink[n] = IF d.ok THEN ActiveSessions(b) ELSE @,
                            !.since = sinceStep(t, "none", helpedKind(link, d.l))]

\* Skiplist.DeleteNode of the linked node n by goroutine t.
DeleteLinked(t, n) ==
    /\ th[t].pc = "idle"
    /\ used.del < lim.dels
    /\ n \in Live
    /\ used' = [used EXCEPT !.del = @ + 1]
    /\ deleteNodeDone(t, n, DeleteNode(link, slLevel, n, "ins"), Acquire(barrier, t))
    /\ UNCHANGED << vis, lim, slLevel, node, nAlloc, currSn, count, leastUnrefSn, lastGCSn,
                    isGCRunning, snap, nSnaps, snapshots, gcsnapshots, gcchan,
                    wr, th, gc, cw, it >>

\* A skiplist iterator that acquires no session.
iterSessionNone(b) == b

\* The session of a skiplist iterator: bs: s.barrier.Acquire().
iterSession(b) == Acquire(b, Reader)

\* Skiplist.NewIterator by the iterating goroutine.
IterNew ==
    /\ it.pc = "none"
    /\ used.iter < lim.iters
    /\ used' = [used EXCEPT !.iter = @ + 1]
    /\ barrier' = iterSession(barrier)
    /\ it' = [NoIter EXCEPT !.pc = "new"]
    /\ UNCHANGED << vis, lim, link, slLevel, node, nAlloc, currSn, count, leastUnrefSn,
                    lastGCSn, isGCRunning, snap, nSnaps, snapshots, gcsnapshots,
                    gcchan, wr, th, gc, cw, hist >>

\* The position p of the skiplist iterator, kept in the iterator.
iterAt(p) == [it EXCEPT !.pc = "ready", !.prev = p.prev, !.curr = p.curr,
                        !.valid = p.valid]

\* Iterator.SeekFirst of the skiplist iterator.
IterSeekFirst ==
    /\ it.pc = "new"
    /\ it' = iterAt(slSeekFirst(link))
    /\ UNCHANGED << vis, barrier, lim, link, slLevel, node, nAlloc, currSn, count,
                    leastUnrefSn, lastGCSn, isGCRunning, snap, nSnaps, snapshots,
                    gcsnapshots, gcchan, wr, th, gc, cw, used, hist >>

\* The nodes Iterator.Next reaches through the iterator: curr, and prev when
\* curr is marked (helpDelete).
iterReads == {it.curr} \cup (IF getNextDel(link, it.curr, 0) THEN {it.prev} ELSE {})

\* Iterator.Next gave r.
iterMoved(r) ==
    /\ link' = r.l
    /\ it' = iterAt(r.i)

\* Iterator.Next of the skiplist iterator, called while it is Valid.
IterNext ==
    /\ it.pc = "ready"
    /\ slValid(it)
    /\ iterMoved(slNext(link, slLevel, [prev |-> it.prev, curr |-> it.curr,
                                        valid |-> it.valid], "ins"))
    /\ hist' = [hist EXCEPT !.uaf = @ \/ iterReads \cap barrier.freed # {},
                            !.since = sinceNoted(Reader, helpedKind(link, link'))]
    /\ UNCHANGED << vis, barrier, lim, slLevel, node, nAlloc, currSn, count, leastUnrefSn,
                    lastGCSn, isGCRunning, snap, nSnaps, snapshots, gcsnapshots,
                    gcchan, wr, th, gc, cw, used >>

\* Iterator.Close of the skiplist iterator: it.s.barrier.Release(it.bs).
IterClose ==
    /\ it.pc \in {"new", "ready"}
    /\ barrier' = Release(barrier, Reader)
    /\ it' = NoIter
    /\ UNCHANGED << vis, lim, link, slLevel, node, nAlloc, currSn, count, leastUnrefSn,
                    lastGCSn, isGCRunning, snap, nSnaps, snapshots, gcsnapshots,
                    gcchan, wr, th, gc, cw, used, hist >>

\* The destructor of the barrier frees (Skiplist.Free) a node handed to it
\* that waits for no session.
BarrierFree(n) ==
    /\ n \in barrier.handed \ barrier.freed
    /\ barrier.pend[n] = {}
    /\ barrier' = [barrier EXCEPT !.freed = @ \cup {n}]
    /\ UNCHANGED << vis, lim, link, slLevel, node, nAlloc, currSn, count, leastUnrefSn,
                    lastGCSn, isGCRunning, snap, nSnaps, snapshots, gcsnapshots,
                    gcchan, wr, th, gc, cw, it, used, hist >>

\* ------------------------------------------- DeleteNode, one access per step
\* Skiplist.DeleteNode(n) by goroutine t, on a node an Insert has returned:
\* Acquire, then softDelete starts at the top level of n.
SdBegin(t, n) ==
    /\ th[t].pc = "idle"
    /\ used.del < lim.dels
    /\ hist.ret[n] = "true"
    /\ used' = [used EXCEPT !.del = @ + 1]
    /\ barrier' = Acquire(barrier, t)
    /\ th' = [th EXCEPT ![t] = [IdleTh EXCEPT !.pc = "sd_read", !.x = n,
                                              !.wi = Len(link[n]) - 1]]
    /\ hist' = [hist EXCEPT !.delCalls[n] = @ + 1]
    /\ UNCHANGED << vis, lim, link, slLevel, node, nAlloc, currSn, count, leastUnrefSn,
                    lastGCSn, isGCRunning, snap, nSnaps, snapshots, gcsnapshots,
                    gcchan, wr, gc, cw, it >>

\* softDelete: next, deleted := delNode.getNext(i); on a marked level the loop
\* of the level ends and the level below is next (after level 0, the return).
SdRead(t) ==
    /\ th[t].pc = "sd_read"
    /\ th' = [th EXCEPT ![t] =
                 IF ~getNextDel(link, th[t].x, th[t].wi)
                 THEN [@ EXCEPT !.pc = "sd_cas", !.hd = getNextPtr(link, th[t].x, th[t].wi)]
                 ELSE IF th[t].wi = 0 THEN [@ EXCEPT !.pc = "sd_done"]
                 ELSE [@ EXCEPT !.wi = @ - 1]]
    /\ hist' = [hist EXCEPT !.since[t] = "none"]
    /\ UNCHANGED << vis, barrier, lim, link, slLevel, node, nAlloc, currSn, count,
                    leastUnrefSn, lastGCSn, isGCRunning, snap, nSnaps, snapshots,
                    gcsnapshots, gcchan, wr, gc, cw, it, used >>

\* softDelete: deleteMarked = delNode.dcasNext(i, next, next, false, true)
SdCas(t) ==
    /\ th[t].pc = "sd_cas"
    /\ LET x == th[t].x
           i == th[t].wi
           ok == dcasOk(link, x, i, th[t].hd)
       IN  /\ link' = IF ok THEN dcasNext(link, x, i, th[t].hd, TRUE) ELSE link
           /\ th' = [th EXCEPT ![t].pc = "sd_read", ![t].dm = ok]
           /\ hist' = [hist EXCEPT
                          !.marker[x] = IF ok /\ i = 0 THEN t ELSE @,
                          !.since = sinceStep(t, hist.since[t],
                                              IF ok THEN "cas" ELSE "none")]
    /\ UNCHANGED << vis, barrier, lim, slLevel, node, nAlloc, currSn, count, leastUnrefSn,
                    lastGCSn, isGCRunning, snap, nSnaps, snapshots, gcsnapshots,
                    gcchan, wr, gc, cw, it, used >>

\* deleteNode after softDelete returned deleteMarked: findPath unlinks the node
\* and DeleteNode returns true, else it returns false; the deferred Release.
SdDone(t) ==
    /\ th[t].pc = "sd_done"
    /\ LET x == th[t].x
       IN  /\ link' = IF th[t].dm THEN findPath(link, slLevel, ItemOf(x), "ins").l
                      ELSE link
           /\ barrier' = Release(IF th[t].dm THEN handOff(barrier, x) ELSE barrier, t)
           /\ hist' = [hist EXCEPT
                          !.delTrue[x] = IF th[t].dm THEN @ \cup {t} ELSE @,
                          !.since = sinceStep(t, "none", helpedKind(link, link'))]
    /\ th' = [th EXCEPT ![t] = IdleTh]
    /\ UNCHANGED << vis, lim, slLevel, node, nAlloc, currSn, count, leastUnrefSn, lastGCSn,
                    isGCRunning, snap, nSnaps, snapshots, gcsnapshots, gcchan,
                    wr, gc, cw, it, used >>

\* ------------------------------------- Insert3, Delete and helpers, stepwise
\* Insert3 of goroutine t returns ok: the deferred Release.
lfInsertEnd(t, ok) ==
    /\ barrier' = Release(barrier, t)
    /\ th' = [th EXCEPT ![t] = IdleTh]
    /\ hist' = [hist EXCEPT !.ret[th[t].x] = IF ok THEN "true" ELSE "false",
                            !.since = sinceStep(t, "none", IF ok THEN "cas" ELSE "none")]

\* Insert3 after findPath: a found item ends the call; else x.setNext(0,
\* succs[0]) and the CAS of preds[0], with goto retry when it fails.
LfLink0(t) ==
    /\ th[t].pc = "ins_link"
    /\ LET x == th[t].x
           b == th[t].buf
           l1 == setNext(link, x, 0, b.succs[1])
       IN  IF b.found # Nil
           THEN link' = link /\ lfInsertEnd(t, FALSE)
           ELSE IF ~dcasOk(l1, b.preds[1], 0, b.succs[1])
           THEN /\ link' = l1
                /\ th' = [th EXCEPT ![t].pc = "ins_retry"]
                /\ UNCHANGED << barrier, hist >>
           ELSE /\ link' = dcasNext(l1, b.preds[1], 0, x, FALSE)
                /\ IF Len(link[x]) = 1
                   THEN lfInsertEnd(t, TRUE)
                   ELSE /\ th' = [th EXCEPT ![t].pc = "ins_up", ![t].wi = 1]
                        /\ hist' = [hist EXCEPT !.since =
                                       sinceStep(t, hist.since[t], "cas")]
                        /\ barrier' = barrier
    /\ UNCHANGED << vis, lim, slLevel, node, nAlloc, currSn, count, leastUnrefSn,
                    lastGCSn, isGCRunning, snap, nSnaps, snapshots, gcsnapshots,
                    gcchan, wr, gc, cw, it, used >>

\* The findPath of Insert3 after a failed CAS: the one at retry (level 0) and
\* the one of fixThisLevel (the levels above).
LfRetry(t) ==
    /\ th[t].pc \in {"ins_retry", "ins_find"}
    /\ LET f == findPath(link, slLevel, ItemOf(th[t].x), "ins")
       IN  /\ link' = f.l
           /\ th' = [th EXCEPT
                        ![t].pc = IF th[t].pc = "ins_retry" THEN "ins_link" ELSE "ins_up",
                        ![t].buf = [preds |-> f.preds, succs |-> f.succs,
                                    found |-> f.found]]
           /\ hist' = [hist EXCEPT !.since =
                          sinceStep(t, "none", helpedKind(link, f.l))]
    /\ UNCHANGED << vis, barrier, lim, slLevel, node, nAlloc, currSn, count,
                    leastUnrefSn, lastGCSn, isGCRunning, snap, nSnaps, snapshots,
                    gcsnapshots, gcchan, wr, gc, cw, it, used >>

\* fixThisLevel at level th[t].wi: x.setNext(i, succs[i]) and the CAS of
\* preds[i]; the level above is next, or Insert3 returns (x, true).
LfUp(t) ==
    /\ th[t].pc = "ins_up"
    /\ LET x == th[t].x
           i == th[t].wi
           b == th[t].buf
           l1 == setNext(link, x, i, b.succs[i + 1])
       IN  IF ~dcasOk(l1, b.preds[i + 1], i, b.succs[i + 1])
           THEN /\ link' = l1
                /\ th' = [th EXCEPT ![t].pc = "ins_find"]
                /\ hist' = [hist EXCEPT !.since =
                               sinceStep(t, hist.since[t],
                                         IF l1 # link THEN "store" ELSE "none")]
                /\ barrier' = barrier
           ELSE /\ link' = dcasNext(l1, b.preds[i + 1], i, x, FALSE)
                /\ IF i = Len(link[x]) - 1
                   THEN lfInsertEnd(t, TRUE)
                   ELSE /\ th' = [th EXCEPT ![t].wi = i + 1]
                        /\ hist' = [hist EXCEPT !.since =
                                       sinceStep(t, hist.since[t], "cas")]
                        /\ barrier' = barrier
    /\ UNCHANGED << vis, lim, slLevel, node, nAlloc, currSn, count, leastUnrefSn,
                    lastGCSn, isGCRunning, snap, nSnaps, snapshots, gcsnapshots,
                    gcchan, wr, gc, cw, it, used >>

\* Skiplist.Delete after findPath gave f: false when the item is not found,
\* else deleteNode(succs[0]) begins with softDelete at the node's top level.
lfDeleteFound(t, f) ==
    /\ link' = f.l
    /\ IF f.found = Nil
       THEN /\ th' = [th EXCEPT ![t] = IdleTh]
            /\ barrier' = barrier
            /\ hist' = [hist EXCEPT !.since =
                           sinceStep(t, "none", helpedKind(link, f.l))]
       ELSE /\ th' = [th EXCEPT ![t] = [IdleTh EXCEPT !.pc = "sd_read", !.x = f.found,
                                                      !.wi = Len(link[f.found]) - 1]]
            /\ barrier' = Acquire(barrier, t)
            /\ hist' = [hist EXCEPT !.delCalls[f.found] = @ + 1,
                                    !.since = sinceStep(t, "none",
                                                        helpedKind(link, f.l))]

\* Skiplist.Delete of key k by goroutine t, up to the start of softDelete.
LfDelete(t, k) ==
    /\ th[t].pc = "idle"
    /\ used.del < lim.dels
    /\ used' = [used EXCEPT !.del = @ + 1]
    /\ lfDeleteFound(t, findPath(link, slLevel, [key |-> k, born |-> 0], "ins"))
    /\ UNCHANGED << vis, lim, slLevel, node, nAlloc, currSn, count, leastUnrefSn,
                    lastGCSn, isGCRunning, snap, nSnaps, snapshots, gcsnapshots,
                    gcchan, wr, gc, cw, it >>

RECURSIVE fpMarked(_, _, _, _, _, _)
\* findPath from (prev, curr) at level i up to its first call of helpDelete:
\* the level and the nodes prev, curr, next of that call; lvl is -1 when the
\* search meets no marked node.
fpMarked(l, itm, c, i, prev, curr) ==
    IF getNextDel(l, curr, i)
    THEN [lvl |-> i, prev |-> prev, curr |-> curr, next |-> getNextPtr(l, curr, i)]
    ELSE IF compare(c, curr, itm) < 0
    THEN fpMarked(l, itm, c, i, curr, getNextPtr(l, curr, i))
    ELSE IF i = 0
    THEN [lvl |-> -1, prev |-> Nil, curr |-> Nil, next |-> Nil]
    ELSE fpMarked(l, itm, c, i - 1, prev, getNextPtr(l, prev, i - 1))

\* Iterator.Seek of key k by goroutine t after its findPath has read m, the
\* link of a marked node: the call of helpDelete is next.
helpFound(t, k, m) ==
    /\ m.lvl >= 0
    /\ th' = [th EXCEPT ![t] = [IdleTh EXCEPT !.pc = "help_cas", !.x = m.curr,
                                              !.hd = m.prev, !.tl = m.next,
                                              !.wi = m.lvl, !.sn = k]]

\* A goroutine seeks key k with an iterator of its own: NewIterator (Acquire)
\* and findPath up to the first marked node it meets.
HelpRead(t, k) ==
    /\ th[t].pc = "idle"
    /\ used.iter < lim.iters
    /\ used' = [used EXCEPT !.iter = @ + 1]
    /\ helpFound(t, k, fpMarked(link, [key |-> k, born |-> 0], "ins", slLevel,
                                head, getNextPtr(link, head, slLevel)))
    /\ barrier' = Acquire(barrier, t)
    /\ hist' = [hist EXCEPT !.since[t] = "none"]
    /\ UNCHANGED << vis, lim, link, slLevel, node, nAlloc, currSn, count,
                    leastUnrefSn, lastGCSn, isGCRunning, snap, nSnaps, snapshots,
                    gcsnapshots, gcchan, wr, gc, cw, it >>

\* helpDelete(i, prev, curr, next) of the seeking goroutine t gave h: the
\* search goes on from prev, or from the head after a failed CAS (goto
\* retry), to its end; then Iterator.Close (Release).
HelpCas(t) ==
    /\ th[t].pc = "help_cas"
    /\ link' = findPath(helpDelete(link, th[t].wi, th[t].hd, th[t].x, th[t].tl).l,
                        slLevel, [key |-> th[t].sn, born |-> 0], "ins").l
    /\ hist' = [hist EXCEPT !.since = sinceStep(t, "none", helpedKind(link, link')),
                            !.helped =
                   IF helpDelete(link, th[t].wi, th[t].hd, th[t].x, th[t].tl).ok
                   THEN Append(@, [n |-> th[t].x, i |-> th[t].wi, ok |-> TRUE,
                                   pm |-> getNextDel(link, th[t].hd, th[t].wi)])
                   ELSE Append(@, [n |-> th[t].x, i |-> th[t].wi, ok |-> FALSE,
                                   pm |-> getNextDel(link, th[t].hd, th[t].wi)])]
    /\ barrier' = Release(barrier, t)
    /\ th' = [th EXCEPT ![t] = IdleTh]
    /\ UNCHANGED << vis, lim, slLevel, node, nAlloc, currSn, count, leastUnrefSn,
                    lastGCSn, isGCRunning, snap, nSnaps, snapshots, gcsnapshots,
                    gcchan, wr, gc, cw, it, used >>

\* ------------------------------------------------------------ MemDB.Visitor
RECURSIVE levelChain(_, _, _, _)
\* The nodes a walk of level i reaches from node n in the links l.
levelChain(l, i, n, acc) ==
    IF n = tail \/ n = Nil \/ n \in acc THEN acc
    ELSE levelChain(l, i, getNextPtr(l, n, i), acc \cup {n})

\* stats.levelNodesCount[i]: raised by every Insert3 of a node of level i (a
\* rejected one included) and lowered by the helpDelete that unlinks a node
\* at its top level i.
levelNodesCount(l, i) ==
    Cardinality({n \in 1..nAlloc :
                    /\ Len(l[n]) = i + 1
                    /\ ~(/\ getNextDel(l, n, i)
                         /\ n \notin levelChain(l, i, getNextPtr(l, head, i), {}))})

\* The bytes of a node's header (itm, GClink) and of one NodeRef (flag, ptr).
nodeHdrSize == 16
nodeRefSize == 16

\* Node.Size of a node of the given level; Skiplist.Size adds itemSize, which
\* is defaultItemSize (0).
nodeSize(level) == nodeHdrSize + (level + 1) * nodeRefSize

RECURSIVE usedBytesTo(_, _)
\* The part of s.usedBytes that the nodes of levels 0..i make.
usedBytesTo(l, i) ==
    IF i < 0 THEN 0
    ELSE levelNodesCount(l, i) * nodeSize(i) + usedBytesTo(l, i - 1)

\* s.usedBytes: raised by Size(x) and lowered by Size(curr) where
\* stats.levelNodesCount is raised and lowered by 1.
usedBytes(l) == usedBytesTo(l, MaxLevel)

RECURSIVE splitLevel(_, _, _)
\* The level GetRangeSplitItems walks: the first from the top with
\* levelNodesCount + 1 >= nways, -1 when there is none.
splitLevel(l, i, nways) ==
    IF i < 0 THEN -1
    ELSE IF levelNodesCount(l, i) + 1 >= nways THEN i
    ELSE splitLevel(l, i - 1, nways)

RECURSIVE splitWalk(_, _, _, _, _, _, _, _)
\* The walk of GetRangeSplitItems at level i: every perSplit-th node is a
\* pivot, until nways - 1 pivots are taken. A marked link restarts the call
\* (ok is FALSE).
splitWalk(l, i, nways, perSplit, n, j, itms, finished) ==
    IF n = tail \/ finished THEN [ok |-> TRUE, itms |-> itms]
    ELSE IF getNextDel(l, n, i) THEN [ok |-> FALSE, itms |-> << >>]
    ELSE IF j = perSplit
         THEN splitWalk(l, i, nways, perSplit, getNextPtr(l, n, i), 0,
                        Append(itms, n), Len(itms) + 1 = nways - 1)
         ELSE splitWalk(l, i, nways, perSplit, getNextPtr(l, n, i), j + 1,
                        itms, finished)

\* GetRangeSplitItems at the level splitLevel gave.
splitAt(l, i, nways) ==
    IF i < 0 THEN [ok |-> TRUE, itms |-> << >>]
    ELSE splitWalk(l, i, nways, (levelNodesCount(l, i) + 1) \div nways,
                   head, 0, << >>, FALSE)

\* Skiplist.GetRangeSplitItems(nways): the nodes whose items are the pivots.
GetRangeSplitItems(l, top, nways) == splitAt(l, splitLevel(l, top, nways), nways)

RECURSIVE visOpen(_, _, _, _, _, _)
\* Visitor after iter.Seek(p) gave r: the iterator is kept when it is Valid
\* and not on the node the last kept iterator starts at.
visKeep(r, top, sn, rest, iters, lasts) ==
    IF slValid(r.i) /\ (lasts = << >> \/ r.i.curr # lasts[Len(lasts)])
    THEN visOpen(r.l, top, sn, rest, Append(iters, r.i), Append(lasts, r.i.curr))
    ELSE visOpen(r.l, top, sn, rest, iters, lasts)

\* Visitor's loop over the pivots, then lastNodes = append(lastNodes, nil).
visOpen(l, top, sn, pivots, iters, lasts) ==
    IF pivots = << >>
    THEN [l |-> l, iters |-> iters, lasts |-> Append(lasts, Nil)]
    ELSE visKeep(scanSkipFrom(slSeek(l, top, ItemOf(Head(pivots)), "iter"), top, sn),
                 top, sn, Tail(pivots), iters, lasts)

\* Visitor from iters[0].SeekFirst() (which gave f) to the last pivot.
visShards(f, top, sn, nways) ==
    visOpen(f.l, top, sn, GetRangeSplitItems(f.l, top, nways).itms, << f.i >>, << >>)

\* A worker's loop over a shard never ends at lastNodes[shard].
shardEndValid(itr, last) == ~slValid(itr)

\* A worker's loop over a shard ends: !itr.Valid(), or the iterator has
\* reached lastNodes[shard].
shardEnd(itr, last) == ~slValid(itr) \/ itr.curr = last

\* The client calls Visitor(snap s, callb, nways, conc); callb returns an
\* error for the item of node e (for none when e is Nil). The iterators are
\* opened and the workers started.
VisitBegin(s, nways, conc, e) ==
    /\ CanCall(1)
    /\ vis.pc = "none"
    /\ snap[s].ret /\ snap[s].held
    /\ used.iter < lim.iters
    /\ GetRangeSplitItems(scanSkip(link, slLevel, slSeekFirst(link), snap[s].sn).l,
                          slLevel, nways).ok
    /\ LET r == visShards(scanSkip(link, slLevel, slSeekFirst(link), snap[s].sn),
                          slLevel, snap[s].sn, nways)
       IN  /\ link' = r.l
           /\ vis' = [NoVisit EXCEPT
                         !.pc = "send", !.snap = s, !.err = e,
                         !.iters = r.iters, !.lasts = r.lasts, !.next = 1,
                         !.wk = [w \in Workers |-> IF w <= conc THEN "recv" ELSE "none"],
                         !.errors = [sh \in 1..Len(r.iters) |-> Nil]]
           /\ snap' = [snap EXCEPT ![s].refCount = @ + Len(r.iters)]
           /\ hist' = [hist EXCEPT !.visited = [sh \in 1..Len(r.iters) |-> << >>]]
    /\ used' = [used EXCEPT !.iter = @ + 1]
    /\ th' = [th EXCEPT ![1] = [IdleTh EXCEPT !.pc = "visit", !.s = s]]
    /\ UNCHANGED << barrier, lim, slLevel, node, nAlloc, currSn, count, leastUnrefSn,
                    lastGCSn, isGCRunning, nSnaps, snapshots, gcsnapshots, gcchan,
                    wr, gc, cw, it >>

\* wch <- shard meets the receive of worker w (the channel has no buffer).
VDispatch(w) ==
    /\ vis.pc = "send"
    /\ vis.next <= Len(vis.iters)
    /\ vis.wk[w] = "recv"
    /\ vis' = [vis EXCEPT !.wk[w] = "run", !.shard[w] = vis.next, !.next = @ + 1]
    /\ UNCHANGED << barrier, lim, link, slLevel, node, nAlloc, currSn, count,
                    leastUnrefSn, lastGCSn, isGCRunning, snap, nSnaps, snapshots,
                    gcsnapshots, gcchan, wr, th, gc, cw, it, used, hist >>

\* Worker w is at the end of its shard and receives from wch again.
VShardEnd(w) ==
    /\ vis.wk[w] = "run"
    /\ shardEnd(vis.iters[vis.shard[w]], vis.lasts[vis.shard[w]])
    /\ vis' = [vis EXCEPT !.wk[w] = "recv"]
    /\ UNCHANGED << barrier, lim, link, slLevel, node, nAlloc, currSn, count,
                    leastUnrefSn, lastGCSn, isGCRunning, snap, nSnaps, snapshots,
                    gcsnapshots, gcchan, wr, th, gc, cw, it, used, hist >>

\* Worker w after callb(itr.Get(), shard) on node n: an error is stored in
\* errors[shard] and the worker returns, else itr.Next() gave r.
visCalled(w, sh, n, r) ==
    /\ hist' = [hist EXCEPT !.visited[sh] = Append(@, n)]
    /\ IF n = vis.err
       THEN /\ vis' = [vis EXCEPT !.errors[sh] = n, !.wk[w] = "exit"]
            /\ link' = link
       ELSE /\ vis' = [vis EXCEPT !.iters[sh] = r.i]
            /\ link' = r.l

\* Worker w calls callb on the current item of its shard.
VCall(w) ==
    /\ vis.wk[w] = "run"
    /\ ~shardEnd(vis.iters[vis.shard[w]], vis.lasts[vis.shard[w]])
    /\ visCalled(w, vis.shard[w], vis.iters[vis.shard[w]].curr,
                 scanSkipFrom(slNext(link, slLevel, vis.iters[vis.shard[w]], "iter"),
                              slLevel, snap[vis.snap].sn))
    /\ UNCHANGED << barrier, lim, slLevel, node, nAlloc, currSn, count,
                    leastUnrefSn, lastGCSn, isGCRunning, snap, nSnaps, snapshots,
                    gcsnapshots, gcchan, wr, th, gc, cw, it, used >>

\* close(wch) after the last shard was sent; wg.Wait() follows.
VCloseCh ==
    /\ vis.pc = "send"
    /\ vis.next > Len(vis.iters)
    /\ vis' = [vis EXCEPT !.pc = "wait"]
    /\ UNCHANGED << barrier, lim, link, slLevel, node, nAlloc, currSn, count,
                    leastUnrefSn, lastGCSn, isGCRunning, snap, nSnaps, snapshots,
                    gcsnapshots, gcchan, wr, th, gc, cw, it, used, hist >>

\* Worker w finds wch closed: its range loop ends and wg.Done() runs.
VExit(w) ==
    /\ vis.pc = "wait"
    /\ vis.wk[w] = "recv"
    /\ vis' = [vis EXCEPT !.wk[w] = "exit"]
    /\ UNCHANGED << barrier, lim, link, slLevel, node, nAlloc, currSn, count,
                    leastUnrefSn, lastGCSn, isGCRunning, snap, nSnaps, snapshots,
                    gcsnapshots, gcchan, wr, th, gc, cw, it, used, hist >>

\* The first error of errors in shard order, nil (Nil) when there is none.
firstError(errors) ==
    IF \A sh \in DOMAIN errors : errors[sh] = Nil THEN Nil
    ELSE errors[CHOOSE sh \in DOMAIN errors :
                    /\ errors[sh] # Nil
                    /\ \A o \in DOMAIN errors : errors[o] # Nil => sh <= o]

\* wg.Wait() returns when every worker is done: Visitor closes its iterators
\* (the client still holds its own reference) and returns the first error.
VReturn ==
    /\ vis.pc = "wait"
    /\ \A w \in Workers : vis.wk[w] \in {"none", "exit"}
    /\ vis' = [vis EXCEPT !.pc = "done", !.ret = firstError(vis.errors)]
    /\ snap' = [snap EXCEPT ![vis.snap].refCount = @ - Len(vis.iters)]
    /\ th' = [th EXCEPT ![1] = IdleTh]
    /\ UNCHANGED << barrier, lim, link, slLevel, node, nAlloc, currSn, count,
                    leastUnrefSn, lastGCSn, isGCRunning, nSnaps, snapshots,
                    gcsnapshots, gcchan, wr, gc, cw, it, used, hist >>

\* ------------------------------------------------------ the specifications
\* Put, Delete and NewSnapshot calls of writer w.
WriterStep(w) ==
    \/ \E k \in Keys : PutBegin(w, k)
    \/ PutInsert(w)
    \/ PutCount(w)
    \/ \E k \in Keys : DeleteBegin(w, k)
    \/ DeleteReadSn(w)
    \/ DeleteDo(w)
    \/ DeleteGc(w)
    \/ DeleteCount(w)
    \/ SnapBegin(w)
    \/ SnapInsertLive(w)
    \/ SnapAddSn(w)
    \/ SnapStitch(w)

\* The rest of a Close that has dropped the last reference, by goroutine t.
CloseStep(t) ==
    \/ CloseDelete(t)
    \/ CloseInsertDead(t)
    \/ CloseLeastRead(t)
    \/ CloseLeastStore(t)
    \/ CloseStartGC(t)

\* NewIterator and Iterator.Close of the reader.
OpenStep ==
    \/ \E s \in SnapIds, r \in lim.rates : OpenLoad(s, r)
    \/ OpenAdd
    \/ ItClose

\* The scan of the reader's iterator.
ScanStep ==
    \/ ItSeekFirst
    \/ \E k \in Keys : ItSeek(k)
    \/ ItNext
    \/ ItSkip
    \/ ItRefresh

GCStep == GCStart \/ GCSeekFirst \/ GCSend \/ GCDelete \/ GCEnd

WorkerStep(w) == WorkerRecv(w) \/ WorkerDelete(w)

\* Spec: one client goroutine, which writes through writer 1, takes snapshots,
\* keeps them open and scans them with an iterator.
Next ==
    \/ WriterStep(1)
    \/ OpenStep
    \/ ScanStep

Init ==
    InitWith([writers |-> 1, items |-> MaxItems, snaps |-> SeqSnaps,
              dels |-> SeqDeletes, iters |-> SeqIters, level |-> SeqLevel,
              rates |-> 0..MaxRefreshRate, serial |-> TRUE])

Spec == Init /\ [][Next]_vars

\* SpecRace: the goroutines of NumWriters writers, each making Put, Delete
\* and NewSnapshot calls of its own; the snapshots stay open.
NextRace == \E w \in Writers : WriterStep(w)

InitRace ==
    InitWith([writers |-> NumWriters, items |-> RaceItems, snaps |-> RaceSnaps,
              dels |-> RaceDeletes, iters |-> 0, level |-> RaceLevel,
              rates |-> {0}, serial |-> FALSE])

SpecRace == InitRace /\ [][NextRace]_vars

\* SpecGC: a writer goroutine that writes, takes snapshots and closes them, a
\* reader goroutine that opens and closes an iterator on a snapshot, the GC
\* goroutine and the collection worker.
NextGC ==
    \/ WriterStep(1)
    \/ \E s \in SnapIds : CloseBegin(1, s)
    \/ \E t \in Threads : CloseStep(t)
    \/ OpenStep
    \/ GCStep
    \/ WorkerStep(1)

InitGC ==
    InitWith([writers |-> 1, items |-> GCItems, snaps |-> MaxSnaps,
              dels |-> GCDeletes, iters |-> GCIters, level |-> GCLevel,
              rates |-> {0}, serial |-> FALSE])

SpecGC == InitGC /\ [][NextGC]_vars

\* SpecSMR: two goroutines that insert and delete nodes of a skiplist with an
\* active barrier, a goroutine that iterates over it, and the destructor.
NextSMR ==
    \/ \E t \in Writers, k \in Keys : InsertFind(t, k)
    \/ \E t \in Writers : InsertLink(t)
    \/ \E t \in Writers, n \in NodeIds : DeleteLinked(t, n)
    \/ IterNew
    \/ IterSeekFirst
    \/ IterNext
    \/ IterClose
    \/ \E n \in NodeIds : BarrierFree(n)

InitSMR ==
    InitWith([writers |-> NumWriters, items |-> SmrItems, snaps |-> 0,
              dels |-> SmrDeletes, iters |-> SmrIters, level |-> SmrLevel,
              rates |-> {0}, serial |-> FALSE])

SpecSMR == InitSMR /\ [][NextSMR]_vars

\* SpecSL: two goroutines that insert nodes of several levels into a skiplist
\* and delete them, every shared access of softDelete a step.
NextSL ==
    \/ \E t \in Writers, k \in Keys : InsertFind(t, k)
    \/ \E t \in Writers : InsertLink(t)
    \/ \E t \in Writers, n \in NodeIds : SdBegin(t, n)
    \/ \E t \in Writers : SdRead(t)
    \/ \E t \in Writers : SdCas(t)
    \/ \E t \in Writers : SdDone(t)

InitSL ==
    InitWith([writers |-> NumWriters, items |-> SlItems, snaps |-> 0,
              dels |-> SlDeletes, iters |-> 0, level |-> SlLevel,
              rates |-> {0}, serial |-> FALSE])

SpecSL == InitSL /\ [][NextSL]_vars

\* The steps of writer w inside a call it has begun.
WriterCont(w) ==
    \/ PutInsert(w)
    \/ PutCount(w)
    \/ DeleteReadSn(w)
    \/ DeleteDo(w)
    \/ DeleteGc(w)
    \/ DeleteCount(w)
    \/ SnapInsertLive(w)
    \/ SnapAddSn(w)
    \/ SnapStitch(w)

\* The calls writer w begins.
WriterCall(w) ==
    \/ \E k \in Keys : PutBegin(w, k)
    \/ \E k \in Keys : DeleteBegin(w, k)
    \/ SnapBegin(w)
    \/ \E s \in SnapIds : CloseBegin(w, s)

\* SpecLive: a writer goroutine that writes, takes snapshots and closes them,
\* the GC goroutine and the collection worker, under fair scheduling: a
\* goroutine inside a call, the GC and the worker go on running; the client
\* may stop making calls at any moment.
NextLive ==
    \/ WriterCall(1)
    \/ WriterCont(1)
    \/ CloseStep(1)
    \/ GCStep
    \/ WorkerStep(1)

InitLive ==
    InitWith([writers |-> 1, items |-> LiveItems, snaps |-> MaxSnaps,
              dels |-> LiveDeletes, iters |-> 0, level |-> 0,
              rates |-> {0}, serial |-> FALSE])

SpecLive ==
    /\ InitLive /\ [][NextLive]_vars
    /\ WF_vars(WriterCont(1))
    /\ WF_vars(CloseStep(1))
    /\ WF_vars(GCStep)
    /\ WF_vars(WorkerStep(1))

\* ------------------------------------------------------ NewLevel, stepwise
\* A CAS of s.level that stores level + 1 whatever s.level holds.
levelCasAlways(top, level) == TRUE

\* atomic.CompareAndSwapInt32(&s.level, int32(level), int32(level+1)) succeeds.
levelCasOk(top, level) == top = level

\* if nextLevel > MaxLevel { nextLevel = MaxLevel }
nlClamp(r) == IF r > MaxLevel THEN MaxLevel ELSE r

\* The Insert calls that are between their NewLevel and their newNode.
nlPending == Cardinality({u \in Threads : th[u].pc \in {"nl_cas", "nl_ret"}})

\* Insert2 of goroutine t begins: NewLevel with r successful draws of randFn
\* up to level := atomic.LoadInt32(&s.level). With nextLevel <= level
\* NewLevel returns nextLevel, else the CAS is next.
NlLoad(t, r) ==
    /\ th[t].pc = "idle"
    /\ nAlloc + nlPending < lim.items
    /\ th' = [th EXCEPT ![t] =
                 IF nlClamp(r) > slLevel
                 THEN [IdleTh EXCEPT !.pc = "nl_cas", !.wi = nlClamp(r), !.sn = slLevel]
                 ELSE [IdleTh EXCEPT !.pc = "nl_ret", !.wi = nlClamp(r), !.sn = slLevel]]
    /\ UNCHANGED << vis, barrier, lim, link, slLevel, node, nAlloc, currSn, count,
                    leastUnrefSn, lastGCSn, isGCRunning, snap, nSnaps, snapshots,
                    gcsnapshots, gcchan, wr, gc, cw, it, used, hist >>

\* NewLevel: the CAS of s.level from level to level + 1; nextLevel is
\* level + 1 when it succeeds and level when it fails. NewLevel returns.
NlCas(t) ==
    /\ th[t].pc = "nl_cas"
    /\ slLevel' = IF levelCasOk(slLevel, th[t].sn) THEN th[t].sn + 1 ELSE slLevel
    /\ th' = [th EXCEPT ![t].pc = "nl_ret",
                        ![t].wi = IF levelCasOk(slLevel, th[t].sn)
                                  THEN th[t].sn + 1 ELSE th[t].sn]
    /\ UNCHANGED << vis, barrier, lim, link, node, nAlloc, currSn, count,
                    leastUnrefSn, lastGCSn, isGCRunning, snap, nSnaps, snapshots,
                    gcsnapshots, gcchan, wr, gc, cw, it, used, hist >>

\* Insert3 of the new node x by goroutine t gave res.
nlInserted(t, x, res) ==
    /\ link' = res.l
    /\ hist' = [hist EXCEPT
                   !.ret[x] = IF res.ok THEN "true" ELSE "false",
                   !.since = sinceStep(t, "none",
                                       IF res.ok THEN "cas"
                                       ELSE helpedKind([link EXCEPT ![x] = res.l[x]],
                                                       res.l))]

\* Insert2 of key k by goroutine t after NewLevel returned th[t].wi: Insert3
\* with itemLevel = th[t].wi (Acquire, newNode, findPath, the links, Release).
NlInsert(t, k) ==
    /\ th[t].pc = "nl_ret"
    /\ nAlloc' = nAlloc + 1
    /\ node' = [node EXCEPT ![nAlloc + 1] = [NoNode EXCEPT !.key = k]]
    /\ nlInserted(t, nAlloc + 1,
                  Insert3([link EXCEPT ![nAlloc + 1] = FreshLinks(th[t].wi)],
                          slLevel, nAlloc + 1, [key |-> k, born |-> 0], "ins", "none"))
    /\ barrier' = Release(Acquire(barrier, t), t)
    /\ th' = [th EXCEPT ![t] = IdleTh]
    /\ UNCHANGED << vis, lim, slLevel, currSn, count, leastUnrefSn, lastGCSn,
                    isGCRunning, snap, nSnaps, snapshots, gcsnapshots, gcchan,
                    wr, gc, cw, it, used >>

\* The steps of an Insert of goroutine t with NewLevel's load and CAS apart.
NlStep(t) ==
    \/ \E r \in 0..lim.level : NlLoad(t, r)
    \/ NlCas(t)
    \/ \E k \in Keys : NlInsert(t, k)

\* SpecNL: goroutines that insert, each NewLevel call in two steps, so that
\* the loads and the CASes of s.level of several calls interleave.
NextNL == \E t \in Threads : NlStep(t)

InitNL ==
    InitWith([writers |-> NumWriters, items |-> NlItems, snaps |-> 0,
              dels |-> 0, iters |-> 0, level |-> NlDraws,
              rates |-> {0}, serial |-> FALSE])

SpecNL == InitNL /\ [][NextNL]_vars

\* The steps of goroutine t on the skiplist, every CAS a step of its own.
LfStep(t) ==
    \/ \E k \in Keys : InsertFind(t, k)
    \/ LfLink0(t)
    \/ LfRetry(t)
    \/ LfUp(t)
    \/ \E k \in Keys : LfDelete(t, k)
    \/ SdRead(t)
    \/ SdCas(t)
    \/ SdDone(t)
    \/ \E k \in Keys : HelpRead(t, k)
    \/ HelpCas(t)

\* SpecLF: the skiplist alone under NumWriters goroutines that insert, delete
\* by key and seek; a node may be deleted while its Insert3 still links its
\* upper levels.
NextLF == \E t \in Writers : LfStep(t)

InitLF ==
    InitWith([writers |-> NumWriters, items |-> LfItems, snaps |-> 0,
              dels |-> LfDeletes, iters |-> LfHelps, level |-> LfLevel,
              rates |-> {0}, serial |-> FALSE])

SpecLF == InitLF /\ [][NextLF]_vars

\* The steps that continue a call goroutine t has begun.
LfCont(t) ==
    \/ LfLink0(t)
    \/ LfRetry(t)
    \/ LfUp(t)
    \/ SdRead(t)
    \/ SdCas(t)
    \/ SdDone(t)
    \/ HelpCas(t)

\* The Go scheduler runs a goroutine that can run: weak fairness of LfCont(t),
\* that is WF_vars(LfCont(t)) written out, []<>~ENABLED <<LfCont(t)>>_vars \/
\* []<><<LfCont(t)>>_vars, with ENABLED <<LfCont(t)>>_vars written as
\* th[t].pc # "idle": every position of a call has its step, and the step
\* changes th[t].
LfFair(t) == []<>(th[t].pc = "idle") \/ []<><<LfCont(t)>>_vars

\* SpecLFLive: SpecLF with every goroutine scheduled fairly.
SpecLFLive == SpecLF /\ \A t \in Writers : LfFair(t)

\* SpecHelp: three goroutines on the skiplist, so that a node marked by one
\* is met by the searches of two others at once.
NextHelp == \E t \in Threads : LfStep(t)

InitHelp ==
    InitWith([writers |-> NumWriters, items |-> HelpItems, snaps |-> 0,
              dels |-> HelpDeletes, iters |-> HelpSeeks, level |-> LfLevel,
              rates |-> {0}, serial |-> FALSE])

SpecHelp == InitHelp /\ [][NextHelp]_vars

\* The steps of a Visitor call: its start by the client, the workers and the
\* goroutine of the caller.
VisitStart ==
    \E s \in SnapIds, nways \in 1..MaxShards, conc \in 1..MaxConc,
       e \in (1..MaxItems) \cup {Nil} : VisitBegin(s, nways, conc, e)

VisitStep ==
    \/ \E w \in Workers : VDispatch(w)
    \/ \E w \in Workers : VShardEnd(w)
    \/ \E w \in Workers : VCall(w)
    \/ VCloseCh
    \/ \E w \in Workers : VExit(w)
    \/ VReturn

\* SpecVisit: one client goroutine writes through writer 1, takes snapshots
\* and then calls Visitor on one of them, as its last call.
NextVisit ==
    \/ vis.pc = "none" /\ WriterStep(1)
    \/ VisitStart
    \/ VisitStep

InitVisit ==
    InitWith([writers |-> 1, items |-> MaxItems, snaps |-> VisSnaps,
              dels |-> VisDeletes, iters |-> 1, level |-> VisLevel,
              rates |-> {0}, serial |-> TRUE])

SpecVisit == InitVisit /\ [][NextVisit]_vars

\* SpecVisitLive: SpecVisit with the goroutines of the Visitor call scheduled
\* fairly (the Go scheduler runs every goroutine that can take a step).
InitVisitLive ==
    InitWith([writers |-> 1, items |-> LiveVisItems, snaps |-> VisSnaps,
              dels |-> VisDeletes, iters |-> 1, level |-> 0,
              rates |-> {0}, serial |-> TRUE])

SpecVisitLive == InitVisitLive /\ [][NextVisit]_vars /\ WF_vars(VisitStep)

\* ------------------------------------------------------------- the claims
\* Snapshot s has been returned by NewSnapshot and is open.
IsOpen(s) == snap[s].ret /\ snap[s].refCount > 0

\* The unmarked linked versions of key k.
VersionsOf(k) == {n \in Live : node[n].key = k}

\* The items whose Put has returned a node and that no Delete has deleted.
PutLive == hist.done \ hist.deleted

RECURSIVE gcNodes(_, _)
\* The nodes of the gc list that starts at n.
gcNodes(n, acc) ==
    IF n = Nil \/ n \in acc THEN acc ELSE gcNodes(node[n].gclink, acc \cup {n})

\* C1: once NewSnapshot has returned S, and while S is open, a full scan of S
\* yields the set of items it yielded when S was returned, whatever the
\* writers (calls in flight at the creation of S included) do.
C1_SnapshotStable ==
    \A s \in SnapIds : IsOpen(s) => ScanSet(snap[s].sn) = hist.scan0[s]

\* C2: every item the MVCC iterator reports after SeekFirst, Seek or Next (a
\* refresh inside Next included) is visible to the iterator's snapshot.
C2_YieldedVisible ==
    \A j \in 1..Len(hist.yielded) : hist.yielded[j].ok

\* C3: the items SeekFirst and the Next calls after it yield are strictly
\* increasing under keyCmp.
C3_StrictlyIncreasing ==
    hist.first =>
        \A j \in 1..(Len(hist.yielded) - 1) :
            keyCmp(node[hist.yielded[j].n].key, node[hist.yielded[j + 1].n].key) < 0

\* The step of C4: a node the collection worker unlinks in this step is
\* visible to no snapshot with refCount > 0, and a gc list sent to the channel
\* in this step holds only nodes whose deadSn is <= the sn of every snapshot
\* with refCount > 0.
C4_ReclaimStep ==
    /\ \A n \in hist.reclaimed' \ hist.reclaimed :
           \A s \in SnapIds : snap[s].refCount > 0 => ~Wanted(n, snap[s].sn)
    /\ Len(gcchan') > Len(gcchan) =>
           \A n \in gcNodes(gcchan'[Len(gcchan')], {}) :
               \A s \in SnapIds : snap[s].refCount > 0 => snap[s].sn >= node[n].dead

\* C4: the reclaimer never unlinks a node that a snapshot with refCount > 0
\* has visible, in any interleaving of NewSnapshot, Open, Close and GC.
C4_NoVisibleReclaim == [][C4_ReclaimStep]_vars

C6_OneLivePerKey ==
    \A a, b \in Live :
        (a # b /\ node[a].key = node[b].key) => (node[a].dead # 0 \/ node[b].dead # 0)

C8_OnlyLaterSn ==
    \A x \in PutLive, s \in SnapIds :
        IsOpen(s) =>
            (x \in ScanSet(snap[s].sn) <=>
                (x \in hist.after[s] /\ snap[s].sn > node[x].born))

\* C8 amended: a Put item stamped bornSn = S that is not deleted is yielded by
\* exactly the snapshots with sn >= S, and these include every snapshot
\* created after the Put.
C8_FromBornSn ==
    \A x \in PutLive, s \in SnapIds :
        IsOpen(s) =>
            /\ x \in ScanSet(snap[s].sn) <=> snap[s].sn >= node[x].born
            /\ x \in hist.after[s] => snap[s].sn >= node[x].born

\* A snapshot taken right after a Put, in the window of the Put, yields the
\* item, and an older snapshot does not.
C8_Witness ==
    \E x \in PutLive, s, t \in SnapIds :
        /\ IsOpen(s) /\ IsOpen(t)
        /\ x \in hist.after[s] /\ snap[s].sn = node[x].born
        /\ x \in ScanSet(snap[s].sn)
        /\ snap[t].sn < node[x].born /\ x \notin ScanSet(snap[t].sn)

\* C9: a node whose deadSn a Delete has set to S keeps that deadSn, stays
\* linked until it is reclaimed, is yielded by no open snapshot with sn >= S
\* and is still yielded by every open snapshot with bornSn <= sn < S.
C9_DeleteStamp ==
    \A x \in NodeIds :
        hist.stamped[x] # 0 =>
            /\ node[x].dead = hist.stamped[x]
            /\ x \notin hist.reclaimed => x \in Live
            /\ \A s \in SnapIds :
                   IsOpen(s) =>
                       /\ snap[s].sn >= hist.stamped[x] => x \notin ScanSet(snap[s].sn)
                       /\ (node[x].born <= snap[s].sn /\ snap[s].sn < hist.stamped[x])
                              => x \in ScanSet(snap[s].sn)

\* C10: the snapshot taken after a Delete(k) followed by a Put(k) yields
\* exactly one item of key k, ItemsCount after the Put is what it was before
\* the Delete, and the new item stays in the snapshot.
C10_DeleteThenPut ==
    \A s \in SnapIds :
        hist.dps[s].ph = "put" =>
            /\ Cardinality({x \in hist.scan0[s] : node[x].key = hist.dps[s].k}) = 1
            /\ hist.dps[s].same
            /\ IsOpen(s) => hist.dps[s].x \in ScanSet(snap[s].sn)

\* Every snapshot is closed and the reclaimer has drained: no call is in
\* flight, the GC goroutine is off, the gc channel is empty and the collection
\* workers hold no list.
Drained ==
    /\ nSnaps > 0
    /\ \A s \in SnapIds : snap[s].refCount = 0
    /\ \A t \in Threads : th[t].pc = "idle"
    /\ it.pc = "none"
    /\ gc.pc = "off"
    /\ gcchan = << >>
    /\ \A w \in Writers : cw[w] = Nil

\* C11: once all snapshots are closed and the reclaimer has drained, the
\* number of nodes linked in the store is the number of successful Puts less
\* the number of successful Deletes, and is ItemsCount.
C11_DrainedCount ==
    Drained =>
        /\ Cardinality(Linked) = Cardinality(hist.done) - hist.ndel
        /\ Cardinality(Linked) = count

C13_NoEqualPair ==
    /\ \A a, b \in Live : a # b => insCmp(node[a], node[b]) # 0
    /\ \A n \in NodeIds : hist.delCalls[n] = 0 /\ hist.ret[n] = "true" => n \in Live
    /\ \A n \in NodeIds :
           (used.del = 0 /\ hist.ret[n] = "false") =>
               \E m \in Live : hist.ret[m] = "true" /\ insCmp(node[m], node[n]) = 0

\* Two Inserts of equal items whose searches both found no equal item: one
\* has returned true and the other (nil, false).
C13_Witness ==
    \E a, b \in NodeIds :
        /\ insCmp(node[a], node[b]) = 0 /\ node[a].key # 0
        /\ hist.ret[a] = "true" /\ hist.ret[b] = "false"
        /\ a \in Live /\ used.del = 0

\* C14: of the DeleteNode invocations on one node at most one returns true,
\* and it is the one whose CAS marked level 0; when all of them have returned
\* and level 0 is marked, that one has returned true.
C14_OneDeleter ==
    \A n \in NodeIds :
        /\ hist.delTrue[n] \subseteq {hist.marker[n]}
        /\ (hist.marker[n] # 0 /\ \A t \in Writers : th[t].pc = "idle")
               => hist.delTrue[n] = {hist.marker[n]}

\* The step of C15: the refCount of a snapshot that NewSnapshot has returned
\* and whose refCount is 0 stays 0 (no Open increments it and returns true).
C15_DeadStep ==
    \A s \in SnapIds : (snap[s].ret /\ snap[s].refCount = 0) => snap'[s].refCount = 0

\* C15: Open never increments the refCount of a snapshot whose refCount has
\* reached 0, under any interleaving of Open and Close.
C15_NoRevival == [][C15_DeadStep]_vars

\* C16: the snapshots of distinct NewSnapshot calls, concurrent calls of
\* several writers included, have distinct sequence numbers that increase in
\* the order of their creation.
C16_DistinctSn ==
    \A s, t \in SnapIds :
        (snap[s].ret /\ snap[t].ret /\ s < t) => snap[s].sn < snap[t].sn

\* C17: leastUnrefSn never decreases.
C17_LeastMonotone == [][leastUnrefSn' >= leastUnrefSn]_vars

\* C18: at most one GC goroutine is active at any moment: the GCs started
\* and not ended number at most one, and isGCRunning is 1 exactly while one
\* is active.
C18_SingleGC ==
    /\ hist.gcActive <= 1
    /\ hist.gcActive = isGCRunning
    /\ gc.pc = "off" <=> isGCRunning = 0

\* A Close reaches the compare-and-swap of isGCRunning while a GC walks the
\* dead snapshots.
C18_Witness ==
    \E t \in Threads : th[t].pc = "cl_gc" /\ gc.pc \in {"cd_loop", "cd_del"}

\* C19: under fair scheduling a snapshot that is in the dead set with
\* sn <= leastUnrefSn is eventually removed from the dead set (its gclist
\* handed to the consumer), also when no further call is made.
C19_DeadCollected ==
    \A s \in SnapIds :
        (s \in gcsnapshots /\ snap[s].sn <= leastUnrefSn) ~> (s \notin gcsnapshots)

\* C20: no operation of the store reaches a panic (the model has no store
\* with snapshots disabled, so NewSnapshot and Upsert2 do not panic here).
C20_NoPanic == it.pc # "panic"


RECURSIVE visitedFrom(_)
\* The nodes the callback was called on, shard after shard, from shard sh on.
visitedFrom(sh) ==
    IF sh > Len(hist.visited) THEN << >>
    ELSE hist.visited[sh] \o visitedFrom(sh + 1)

\* C21: within each shard the callback receives strictly increasing items
\* under the insert comparator (so keys never decrease), no item is given to
\* the callback twice, by one shard or by two, and when Visitor has returned
\* nil the items of the shards, shard after shard, are the full scan of the
\* snapshot: every visible item exactly once.
C21_VisitOnce ==
    /\ \A sh \in DOMAIN hist.visited :
          \A j \in 1..(Len(hist.visited[sh]) - 1) :
              insCmp(node[hist.visited[sh][j]], node[hist.visited[sh][j + 1]]) < 0
    /\ \A j, k \in 1..Len(visitedFrom(1)) :
          j # k => visitedFrom(1)[j] # visitedFrom(1)[k]
    /\ (vis.pc = "done" /\ vis.ret = Nil) =>
          visitedFrom(1) = FullScan(snap[vis.snap].sn)

\* A Visitor call of at least two shards has returned nil, two of its shards
\* gave items to the callback, and the snapshot hides an item of the store.
C21_Witness ==
    /\ vis.pc = "done" /\ vis.ret = Nil
    /\ Len(vis.iters) >= 2
    /\ Cardinality({sh \in DOMAIN hist.visited : hist.visited[sh] # << >>}) >= 2
    /\ Len(FullScan(snap[vis.snap].sn)) < Cardinality(Linked)

\* C22: once the callback has returned an error in a Visitor call, the call
\* returns, and it returns that error.
C22_ErrorReturned ==
    (\E sh \in DOMAIN vis.errors : vis.errors[sh] # Nil)
        ~> (vis.pc = "done" /\ vis.ret = vis.err)


\* No goroutine is inside a call: the client may call Writer.Get.
Quiescent == \A t \in Threads : th[t].pc = "idle"

\* The linked, unmarked versions of key k.
LiveVersions(k) == {n \in Live : node[n].key = k}

\* The version of key k with the highest bornSn among those linked.
Newest(k) ==
    CHOOSE n \in LiveVersions(k) : \A o \in LiveVersions(k) : node[o].born <= node[n].born

\* Writer.Get(k) returns the newest linked version of k when it has no deadSn,
\* and nil when it has one or when no version is linked.
C23_GetNewest ==
    Quiescent =>
        \A k \in Keys :
            GetNode(link, slLevel, k).n =
                IF LiveVersions(k) = {} THEN Nil
                ELSE IF node[Newest(k)].dead = 0 THEN Newest(k) ELSE Nil

\* C23: Writer.Get(k) returns the newest linked version of k when it has no
\* deadSn and nil otherwise, and so Get(k) is not nil when the last
\* successful call on k was a Put and nil when it was a Delete.
C23_GetAfterCall ==
    /\ C23_GetNewest
    /\ Quiescent =>
          \A k \in Keys :
              /\ hist.last[k] = "put" => GetNode(link, slLevel, k).n # Nil
              /\ hist.last[k] = "del" => GetNode(link, slLevel, k).n = Nil


\* Seek of the item of node n gave r: it reports found and the iterator is
\* Valid on n, and one Next leaves the iterator not Valid.
seekOnly(r, n, c) ==
    /\ r.found
    /\ slValid(r.i)
    /\ r.i.curr = n
    /\ ~slValid(slNext(r.l, slLevel, r.i, c).i)

\* C24: on a skiplist with no item SeekFirst leaves the iterator not Valid;
\* on a skiplist with exactly one item Seek of that item finds it, with
\* either comparator, and one Next makes the iterator not Valid.
C24_EmptyAndSingle ==
    /\ Linked = {} => ~slValid(slSeekFirst(link))
    /\ \A n \in NodeIds :
          (Linked = {n} /\ Live = {n}) =>
              \A c \in {"ins", "iter"} :
                  seekOnly(slSeek(link, slLevel, ItemOf(n), c), n, c)

\* The skiplist holds exactly one item, a node of level 1, after another item
\* was inserted and deleted.
C24_Witness ==
    /\ \E m \in 1..nAlloc : link[m] # << >> /\ getNextDel(link, m, 0)
    /\ \E n \in NodeIds : Linked = {n} /\ Live = {n} /\ Len(link[n]) = 2


\* The items of a full scan of snapshot number sn whose key is >= k, in order.
scanFrom(sn, k) == SelectSeq(FullScan(sn), LAMBDA n : keyCmp(node[n].key, k) >= 0)

\* C25: when Seek(k) of the MVCC iterator has returned, the iterator is Valid
\* iff the snapshot has a visible item with key >= k, and it is then on the
\* smallest such item, never on an item with a smaller key or on a sentinel.
C25_SeekLowerBound ==
    (it.pc = "ready" /\ hist.sought # 0) =>
        /\ slValid(it) <=> scanFrom(snap[it.snap].sn, hist.sought) # << >>
        /\ slValid(it) => it.curr = Head(scanFrom(snap[it.snap].sn, hist.sought))


RECURSIVE levelSeq(_, _, _, _)
\* The walk of level i of the links l from node n: the nodes met, and where
\* the walk ends (the tail, a nil pointer, or a node met after more steps
\* than there are nodes: a cycle).
levelSeq(l, i, n, acc) ==
    IF n = tail \/ n = Nil \/ Len(acc) > MaxItems THEN [end |-> n, seq |-> acc]
    ELSE levelSeq(l, i, getNextPtr(l, n, i), Append(acc, n))

\* The nodes reachable from the head at level i, in order.
levelWalk(i) == levelSeq(link, i, getNextPtr(link, head, i), << >>)

\* The nodes of sequence q whose link at level i is not marked.
unmarkedOf(q, i) == SelectSeq(q, LAMBDA n : ~getNextDel(link, n, i))

\* Sequence q of nodes is strictly increasing under the insert comparator.
increasing(q) ==
    \A j \in 1..(Len(q) - 1) : insCmp(node[q[j]], node[q[j + 1]]) < 0

\* C26: at every level the chain from the head ends at the tail and its
\* unmarked nodes are strictly increasing under the insert comparator.
C26_SortedLevels ==
    \A i \in 0..MaxLevel :
        /\ levelWalk(i).end = tail
        /\ increasing(unmarkedOf(levelWalk(i).seq, i))

\* Two nodes are linked at level 1, one of them marked there by a delete
\* that has not unlinked it yet.
C26_Witness ==
    /\ Len(levelWalk(1).seq) = 2
    /\ Len(unmarkedOf(levelWalk(1).seq, 1)) = 1


\* C27: a node reachable from the head at a level above 0 is reachable from
\* the head at level 0.
C27_UpperInLevel0 ==
    \A i \in 1..MaxLevel : Range(levelWalk(i).seq) \subseteq Linked


\* The nodes Insert3 has given links, and the levels of node n.
Made == {n \in 1..nAlloc : link[n] # << >>}
LevelsOf(n) == 0..(Len(link[n]) - 1)

\* A node marked at level 0 is marked at every level it has.
C28_TopDown ==
    \A n \in Made :
        getNextDel(link, n, 0) => \A i \in LevelsOf(n) : getNextDel(link, n, i)

\* In this step every marked link keeps its mark and its pointer.
C28_MarkedKept ==
    \A n \in Made : \A i \in LevelsOf(n) :
        getNextDel(link, n, i) => link'[n][i + 1] = link[n][i + 1]

\* C28: marks are set top-down (a node marked at level 0 is marked at all its
\* levels) and are permanent: a marked link stays marked, with the same
\* successor pointer, in every later state.
C28_MarksPermanent == []C28_TopDown /\ [][C28_MarkedKept]_vars


\* Insert3 of node n has made its CAS of level i.
linkedOnce(n, i) ==
    \/ hist.ret[n] = "true"
    \/ \E t \in Threads :
          /\ th[t].x = n
          /\ th[t].pc \in {"ins_up", "ins_find"}
          /\ i < th[t].wi

\* Node n was linked at level i and a helpDelete has unlinked it there.
unlinkedAt(l, n, i) ==
    n \notin Range(levelSeq(l, i, getNextPtr(l, head, i), << >>).seq)

\* In this step no node that a helpDelete has unlinked at a level becomes
\* reachable at that level again (a second helpDelete could then succeed).
C29_NoSecondUnlink ==
    \A n \in Made : \A i \in LevelsOf(n) :
        (linkedOnce(n, i) /\ unlinkedAt(link, n, i)) => unlinkedAt(link', n, i)

\* Of the helpDelete calls of the seeking goroutines on one node and level at
\* most one succeeded, and none succeeded through a marked predecessor.
C29_OneHelper ==
    /\ \A j, k \in 1..Len(hist.helped) :
          (/\ j # k
           /\ hist.helped[j].n = hist.helped[k].n
           /\ hist.helped[j].i = hist.helped[k].i)
              => ~(hist.helped[j].ok /\ hist.helped[k].ok)
    /\ \A j \in 1..Len(hist.helped) : hist.helped[j].ok => ~hist.helped[j].pm

\* The step of a seeking goroutine whose helpDelete is due ends its Seek: the
\* goroutine is idle again, its barrier session is closed, and the search it
\* ran again meets no marked node on the way to its key any more.
C29_HelperCompletes ==
    \A t \in Threads :
        (th[t].pc = "help_cas" /\ th'[t] # th[t])
            => /\ th'[t].pc = "idle"
               /\ Len(hist'.helped) = Len(hist.helped) + 1
               /\ fpMarked(link', [key |-> th[t].sn, born |-> 0], "ins", slLevel,
                           head, getNextPtr(link', head, slLevel)).lvl = -1

casLost(t) ==
    \/ th[t].pc = "ins_link" /\ th'[t].pc = "ins_retry"
    \/ th[t].pc = "ins_up" /\ th'[t].pc = "ins_find"
    \/ th[t].pc = "sd_cas" /\ th'[t].pc = "sd_read" /\ ~th'[t].dm
    \/ /\ th[t].pc = "help_cas" /\ th'[t].pc = "idle"
       /\ ~hist'.helped[Len(hist'.helped)].ok

\* Every call a goroutine has begun returns.
C30_Terminates ==
    \A t \in Writers : (th[t].pc # "idle") ~> (th[t].pc = "idle")

\* A CAS fails only after a CAS of another goroutine has succeeded since the
\* goroutine read the links.
C30_LostToCas == \A t \in Threads : casLost(t) => hist.since[t] = "cas"

\* A CAS fails only after another goroutine has changed the links since the
\* goroutine read them: with a CAS that succeeded, or with the plain store of
\* x.setNext in Insert3 (fixThisLevel) into a node that is linked already.
C30_LostToChange ==
    \A t \in Threads : casLost(t) => hist.since[t] \in {"cas", "store"}

\* C30 as stated: under fair scheduling every call terminates, and whenever
\* a CAS of a goroutine fails and it restarts its retry loop, a CAS of another
\* goroutine has succeeded.
C30_LockFree == C30_Terminates /\ [][C30_LostToCas]_vars

\* Progress with the plain store counted: under fair scheduling every Insert,
\* Delete and Seek call terminates, and whenever a CAS of a goroutine fails
\* and it restarts its retry loop, another goroutine has changed the links
\* since it read them, with a CAS that succeeded or with the plain store of
\* Insert3's setNext.
C30_Progress == C30_Terminates /\ [][C30_LostToChange]_vars

\* The stored top level is at most MaxLevel, no node is higher than it, and
\* every node an Insert has returned as inserted is on the chain of each of
\* its levels, which a findPath from the stored top level walks.
C31_Covered ==
    /\ slLevel <= MaxLevel
    /\ \A n \in Made :
          /\ Len(link[n]) - 1 <= slLevel
          /\ hist.ret[n] = "true" =>
                \A i \in LevelsOf(n) : n \in Range(levelWalk(i).seq)

\* In this step the stored top level stays or grows by one, and a NewLevel
\* that returns gives a level that is at most the stored top level.
C31_LevelStep ==
    /\ slLevel' \in {slLevel, slLevel + 1}
    /\ \A t \in Threads :
          (th[t].pc \in {"idle", "nl_cas"} /\ th'[t].pc = "nl_ret")
              => th'[t].wi <= slLevel'

\* C31: under concurrent callers each NewLevel call raises the stored top
\* level by at most 1, the stored top level never decreases and never exceeds
\* MaxLevel, the level NewLevel returns never exceeds the stored top level
\* at its return, and every inserted node's level is covered by findPath.
C31_NewLevel == []C31_Covered /\ [][C31_LevelStep]_vars

\* The CAS of a NewLevel call is due and will fail (another call has raised
\* the top level since the load), the top level has reached MaxLevel, and a
\* node of level MaxLevel is inserted.
C31_Witness ==
    /\ slLevel = MaxLevel
    /\ \E t \in Threads : th[t].pc = "nl_cas" /\ th[t].sn < slLevel
    /\ \E n \in Made : hist.ret[n] = "true" /\ Len(link[n]) - 1 = MaxLevel

\* The results f and g of two findPath calls are the same: the found node,
\* preds and succs of every level, and the links they leave behind.
fpSame(f, g) ==
    /\ g.found = f.found
    /\ g.preds = f.preds
    /\ g.succs = f.succs
    /\ g.l = f.l

\* A second findPath of item itm on the links l, where a first one left f.
fpAgain(l, f, itm) == fpSame(f, findPath(f.l, slLevel, itm, "ins"))

\* C32: with no concurrent mutation a second findPath(k) right after a first
\* one returns the same found node and the same preds and succs at every
\* level, and no CAS of it succeeds (it leaves the links as it finds them).
C32_FindPathIdempotent ==
    \A k \in Keys :
        fpAgain(link, findPath(link, slLevel, [key |-> k, born |-> 0], "ins"),
                [key |-> k, born |-> 0])

\* A findPath in this state unlinks a marked node on its path, at a level
\* above 0 too, and finds a node.
C32_Witness ==
    \E k \in Keys :
        /\ findPath(link, slLevel, [key |-> k, born |-> 0], "ins").l # link
        /\ findPath(link, slLevel, [key |-> k, born |-> 0], "ins").found # Nil
        /\ \E n \in Made :
              /\ getNextPtr(link, head, 1) = n
              /\ getNextDel(link, n, 1)

\* The snapshots NewSnapshot has returned.
returnedSnaps == {s \in 1..nSnaps : snap[s].ret}

\* Node n got its deadSn from a Writer.Delete that has returned.
deleteReturned(n) ==
    /\ hist.stamped[n] # 0
    /\ \A w \in Writers : ~(th[w].pc \in {"del_gc", "del_cnt"} /\ th[w].x = n)

\* Node n is on the gclist of snapshot s.
onGclist(s, n) == n \in gcNodes(snap[s].gclist, {})

\* The returned snapshots of the least sn that is at least d.
firstAtLeast(d) ==
    {s \in returnedSnaps :
        /\ snap[s].sn >= d
        /\ \A u \in returnedSnaps : snap[u].sn >= d => snap[u].sn >= snap[s].sn}

\* Node n waits for the next snapshot: it is on the list of a writer, or on
\* the chain a NewSnapshot in progress has stitched so far.
gcPending(n) ==
    \E w \in Writers :
        \/ n \in gcNodes(wr[w].gchead, {})
        \/ th[w].pc = "ns_gc" /\ n \in gcNodes(th[w].hd, {})

\* C33: every node whose deadSn was set by a successful Writer.Delete is on
\* the gclist of exactly one snapshot, the first snapshot whose sn is at
\* least that deadSn, on no other gclist, and is never dropped (until that
\* snapshot is made it waits on a writer's list), whatever the interleaving
\* of the writers' Delete calls and NewSnapshot.
C33_GclistOfFirst ==
    \A n \in NodeIds :
        deleteReturned(n) =>
            /\ \A s \in returnedSnaps :
                  onGclist(s, n) => s \in firstAtLeast(node[n].dead)
            /\ Cardinality({s \in returnedSnaps : onGclist(s, n)}) <= 1
            /\ IF firstAtLeast(node[n].dead) # {}
               THEN \E s \in firstAtLeast(node[n].dead) : onGclist(s, n)
               ELSE gcPending(n)

\* C34: a node whose Insert returned inserted = true and whose level 0 link
\* nobody has marked is reachable from head at level 0 in every state, under
\* any interleaving of Inserts next to it and of soft deletes and helpDelete
\* unlinks of its neighbours; so is a node whose level 0 CAS has succeeded
\* while its Insert3 still links the upper levels.
C34_InsertedReachable ==
    \A n \in Made :
        (linkedOnce(n, 0) /\ ~getNextDel(link, n, 0)) => n \in Linked

\* An inserted node of the smaller key has been soft-deleted and unlinked at
\* level 0, and a node of the larger key, inserted as well and not marked,
\* is linked.
C34_Witness ==
    \E m, n \in Made :
        /\ hist.ret[m] = "true" /\ hist.ret[n] = "true"
        /\ node[m].key < node[n].key
        /\ getNextDel(link, m, 0) /\ m \notin Linked
        /\ ~getNextDel(link, n, 0) /\ n \in Linked

\* Every item was born in a window that has begun, and a stamped item died
\* in a later window than the one it was born in.
C35_Order ==
    \A n \in 1..nAlloc :
        /\ node[n].born <= currSn
        /\ node[n].dead = 0 \/ node[n].dead > node[n].born

\* A deadSn is stamped in this step only by a Delete that read a currSn other
\* than the item's bornSn, and only on a node that no Delete has removed
\* from the skiplist for being born in the window it read.
C35_StampStep ==
    \A n \in 1..nAlloc :
        (node[n].dead = 0 /\ node'[n].dead # 0) =>
            /\ ~getNextDel(link, n, 0)
            /\ \E w \in Writers :
                  /\ th[w].pc = "del_do" /\ th[w].x = n
                  /\ th[w].sn # node[n].born
                  /\ node'[n].dead = th[w].sn

\* C35: for every item bornSn <= currSn and deadSn = 0 or deadSn > bornSn;
\* Writer.Delete stamps deadSn only on versions born in an earlier window,
\* and a version whose bornSn equals the currSn read by Delete is removed
\* from the skiplist instead and never gets a deadSn.
C35_SnWindows == []C35_Order /\ [][C35_StampStep]_vars

\* Born and died in windows in order, without the part on removed versions.
C35_Stamped == []C35_Order

\* The nodes of level i that are linked: on the chain of level 0.
linkedOfLevel(i) == {n \in Linked : Len(link[n]) = i + 1}

RECURSIVE linkedBytesTo(_)
\* The sizes of the linked nodes of levels 0..i, added up.
linkedBytesTo(i) ==
    IF i < 0 THEN 0
    ELSE Cardinality(linkedOfLevel(i)) * nodeSize(i) + linkedBytesTo(i - 1)

\* When no call is in progress the count of every level is the number of
\* linked nodes of that level, and usedBytes is the sum of their sizes.
C36_AtRest ==
    (\A t \in Threads : th[t].pc = "idle") =>
        /\ \A i \in 0..MaxLevel :
              levelNodesCount(link, i) = Cardinality(linkedOfLevel(i))
        /\ usedBytes(link) = linkedBytesTo(MaxLevel)

\* An Insert3 that returns (nil, false) in this step leaves the linked nodes,
\* the count of every level and usedBytes as they were before the call.
C36_RejectKeeps ==
    \A t \in Threads :
        (th[t].pc = "nl_ret" /\ th'[t].pc = "idle" /\ hist'.ret[nAlloc + 1] = "false") =>
            /\ Linked' = Linked
            /\ \A i \in 0..MaxLevel :
                  levelNodesCount(link, i)' = levelNodesCount(link, i)
            /\ usedBytes(link)' = usedBytes(link)

\* C36: an Insert that is rejected as a duplicate leaves the skiplist
\* unchanged (the linked nodes, the per-level node counts and usedBytes are
\* those of before the call), so that at quiescence each per-level count
\* equals the number of linked nodes of that level.
C36_DuplicateFrame == []C36_AtRest /\ [][C36_RejectKeeps]_vars

\* The linked nodes alone are those of before a rejected Insert3.
C36_RejectKeepsLinks ==
    \A t \in Threads :
        (th[t].pc = "nl_ret" /\ th'[t].pc = "idle" /\ hist'.ret[nAlloc + 1] = "false") =>
            Linked' = Linked

\* No rejected Insert3 changes the set of linked nodes.
C36_LinksKept == [][C36_RejectKeepsLinks]_vars


====
